---- MODULE Spec2Model ----
(***************************************************************************)
(* Claim engine of python_src/claim_processor.py (class ClaimProcessor     *)
(* with the Patient and Claim dataclasses) and its AuthenticationService.  *)
(*                                                                         *)
(* Amounts are Python floats in the source; the engine only compares them  *)
(* with the thresholds 0, 100.0, 10000.0 and 50000.0 and adds them up, so  *)
(* they are modelled as integers placed on and next to every threshold.    *)
(* float('nan'), which every comparison of the code answers False, is not  *)
(* among the amounts.                                                      *)
(* A str is a sequence of one-character strings wherever the code looks    *)
(* inside it (email, description) and an opaque string elsewhere.          *)
(* Claim.provider_id and Claim.date_of_service are never read by the       *)
(* engine and are left out of the claim record.                            *)
(* DatabaseManager of python_src/database.py is a table of rows per        *)
(* primary key, starting empty; the schema in force is that of             *)
(* _create_tables, run by __init__, and no PRAGMA foreign_keys is issued,  *)
(* so SQLite records the FOREIGN KEY of claims.patient_id without          *)
(* enforcing it.  Row values are text and numbers, never NULL.             *)
(* A session token is secrets.token_urlsafe(32), 256 random bits: the      *)
(* model draws a token that was never drawn before, numbered in the order  *)
(* of drawing.                                                             *)
(***************************************************************************)
EXTENDS Integers, Sequences, FiniteSets, TLC

VARIABLES
    patients,   \* ClaimProcessor.patients: dict patient id -> Patient
    claims,     \* ClaimProcessor.claims: dict claim id -> Claim, in insertion order
    clock,      \* what datetime.now() returns
    last,       \* the call that was made last: its name, key, outcome and argument object
    users,            \* AuthenticationService.users: dict user id -> user data, in insertion order
    active_sessions,  \* AuthenticationService.active_sessions: dict token -> user id
    tokens_drawn,     \* how many tokens secrets.token_urlsafe has returned
    db_patients,      \* DatabaseManager: the rows of table patients, by primary key
    db_claims,        \* DatabaseManager: the rows of table claims, by primary key
    callers           \* the calls that are run step by step: each caller's position and locals

engineVars == <<patients, claims, clock>>
authVars == <<users, active_sessions, tokens_drawn>>
dbVars == <<db_patients, db_claims>>
vars == <<patients, claims, clock, last, users, active_sessions, tokens_drawn,
          db_patients, db_claims, callers>>

----------------------------------------------------------------------------
(* Input sets of the model *)

PatientIds == {"P1", "P2"}
ClaimIds == {"C1", "C2"}
Names == {"Ann", "Bob"}
Reasons == {"", "Insufficient documentation"}

\* on and next to every threshold the code compares an amount with
Amounts == {-50, 0, 100, 101, 10000, 10001, 50000, 50001}

\* one amount for each outcome of submit_claim, for runs with several claims
EngineAmounts == {100, 101, 10001, 50001}

\* the single claim id of the runs that take every amount
BoundaryClaimIds == {"C1"}

\* the three claims of the runs that add amounts up: one that is approved on
\* submission, one that is processing, one that requires review
TotalsClaimIds == {"C1", "C2", "C3"}
TotalsAmount == [id \in TotalsClaimIds |->
                    IF id = "C1" THEN 75 ELSE IF id = "C2" THEN 500 ELSE 15000]

\* a patient id nobody registers
UnknownPatientId == "P9"

\* the latest time the clock reaches
MaxClock == 2

GoodEmail == <<"a", "@", "b", ".", "c">>
BadEmail == <<"a", "b", ".", "c">>
Emails == {GoodEmail, BadEmail}
InsuranceIds == {"", "INS12345"}

\* users: an 8-character password is the shortest accepted
UserIds == {"U1", "U2"}
UnknownUserId == "U9"
OtherEmail == <<"d", "@", "e", ".", "f">>
UserEmails == {GoodEmail, OtherEmail, BadEmail}
GoodPassword == <<"p", "a", "s", "s", "w", "o", "r", "d">>
OtherPassword == <<"l", "e", "t", "m", "e", "i", "n", "9", "9">>
ShortPassword == <<"p", "a", "s", "s", "w", "o", "r">>
Passwords == {GoodPassword, OtherPassword, ShortPassword}

\* the number of session tokens drawn in a run
MaxTokens == 3
Tokens == 1..MaxTokens

GoodDescription == <<"c", "h", "e", "c", "k">>
ShortDescription == <<" ", "a", "b", "c", " ">>
Descriptions == {GoodDescription, ShortDescription}

\* what a caller may pass to the constructors: emails that miss one part of
\* local@domain.tld each, and descriptions around the length of 5
ConstructEmails ==
    {GoodEmail, BadEmail, <<>>,
     <<"@", "b", ".", "c">>,
     <<"a", "@", "b">>,
     <<"a", "@", ".", "c">>,
     <<"a", "@", "b", ".">>,
     <<"a", "@", "b", "@", "c", ".", "d">>,
     <<"a", "@", "b", ".", "c", ".", "d">>}
SpacedDescription == <<"a", " ", "b", " ", "c">>
ConstructDescriptions ==
    {GoodDescription, ShortDescription, SpacedDescription, <<>>,
     <<"a", "b", "c", "d">>,
     <<" ", " ", " ", " ", " ", " ">>,
     <<"\t", "c", "h", "e", "c", "k", "\n">>}

----------------------------------------------------------------------------
(* class ClaimStatus *)

PENDING == "pending"
APPROVED == "approved"
REJECTED == "rejected"
PROCESSING == "processing"
REQUIRES_REVIEW == "requires_review"
ClaimStatus == {PENDING, APPROVED, REJECTED, PROCESSING, REQUIRES_REVIEW}

\* the statuses a caller passes to the Claim constructor in this model
ConstructStatuses == {PENDING, REJECTED}

(* class UserType *)
PATIENT == "patient"
PROVIDER == "provider"
PAYOR == "payor"
UserType == {PATIENT, PROVIDER, PAYOR}

\* the user types passed to register_user in this model
RegisteredTypes == {PATIENT, PROVIDER}

(* Outcomes of a call: the returned bool, or the message of the ValueError  *)
(* raised.  The two ValueErrors of submit_claim are what the specification  *)
(* calls ReferentialError and LimitExceededError.                           *)
RetTrue == "True"
RetFalse == "False"
RetObject == "object"
RetNone == "None"
ReferentialError == "ValueError: Patient not found"
LimitExceededError == "ValueError: Claim amount exceeds maximum limit"
InvalidEmail == "ValueError: Invalid email format"
InsuranceRequired == "ValueError: Insurance ID is required"
AmountNotPositive == "ValueError: Claim amount must be positive"
DescriptionTooShort == "ValueError: Claim description must be at least 5 characters"
PasswordTooShort == "ValueError: Password must be at least 8 characters long"

----------------------------------------------------------------------------
(* ClaimProcessor.__init__ *)

auto_approve_threshold == 100
max_claim_amount == 50000
review_threshold == 10000

----------------------------------------------------------------------------
(* Strings *)

Whitespace == {" ", "\t", "\n"}

\* str.strip(): what lies between the first and the last character that is
\* not whitespace
Strip(s) ==
    LET solid == {i \in 1..Len(s) : s[i] \notin Whitespace}
    IN  IF solid = {} THEN <<>>
        ELSE SubSeq(s, CHOOSE i \in solid : \A j \in solid : i <= j,
                       CHOOSE i \in solid : \A j \in solid : j <= i)

\* the email test asking for an '@' with text before it only
EmailMatches_AtOnly(email) ==
    \E at \in 2..Len(email) : email[at] = "@"

\* re.match(r'^[^@]+@[^@]+\.[^@]+$', email): one '@', text before it, and after
\* it a '.' with text on both sides
EmailMatches(email) ==
    \E at \in 1..Len(email) :
        /\ email[at] = "@"
        /\ \A i \in 1..Len(email) : email[i] = "@" => i = at
        /\ at > 1
        /\ \E dot \in (at + 2)..(Len(email) - 1) : email[dot] = "."

----------------------------------------------------------------------------
(* Patient and Claim dataclasses *)

\* Claim.__post_init__ measuring the description as it is passed
ClaimPostInit_Untrimmed(c) ==
    IF c.amount <= 0 THEN AmountNotPositive
    ELSE IF c.description = <<>> \/ Len(c.description) < 5 THEN DescriptionTooShort
    ELSE RetObject

\* Patient.__post_init__: the outcome of constructing a patient from these fields
PatientPostInit(p) ==
    IF p.email = <<>> \/ ~EmailMatches(p.email) THEN InvalidEmail
    ELSE IF p.insurance_id = "" THEN InsuranceRequired
    ELSE RetObject

\* Claim.__post_init__ rejecting only negative amounts
ClaimPostInit_ZeroAccepted(c) ==
    IF c.amount < 0 THEN AmountNotPositive
    ELSE IF c.description = <<>> \/ Len(Strip(c.description)) < 5 THEN DescriptionTooShort
    ELSE RetObject

\* Claim.__post_init__: the outcome of constructing a claim from these fields
ClaimPostInit(c) ==
    IF c.amount <= 0 THEN AmountNotPositive
    ELSE IF c.description = <<>> \/ Len(Strip(c.description)) < 5 THEN DescriptionTooShort
    ELSE RetObject

\* the field values a caller may pass to Patient(...)
PatientArgs ==
    [id : PatientIds, name : Names, email : Emails, insurance_id : InsuranceIds]

\* the field values a caller may pass to Claim(...); created_at and updated_at
\* are not supplied
ClaimArgs ==
    [id : ClaimIds, patient_id : PatientIds, amount : Amounts,
     description : Descriptions, status : ConstructStatuses]

\* the Patient objects that exist: construction succeeded.  (The outer
\* {q : q \in ...} makes the set an enumerated one, computed once.)
ConstructedPatients ==
    {q : q \in {p \in PatientArgs : PatientPostInit(p) = RetObject}}

\* the arguments Claim(...) accepts
ConstructibleClaimArgs ==
    {b : b \in {a \in ClaimArgs : ClaimPostInit(a) = RetObject}}

\* Claim.__post_init__: created_at and updated_at default to two successive
\* reads of datetime.now()
NewClaimObject(a, created, updated) ==
    [id |-> a.id, patient_id |-> a.patient_id, amount |-> a.amount,
     description |-> a.description, status |-> a.status,
     created_at |-> created, updated_at |-> updated]

\* the Claim objects a caller can hold: constructed from some of these
\* arguments at some time up to now
ConstructedClaims(args) ==
    {NewClaimObject(a, t[1], t[2]) :
        a \in args,
        t \in {u \in (0..clock) \X (0..clock) : u[1] <= u[2]}}

\* the arguments of the runs with several claims, and of the runs with every amount
EngineClaimArgs ==
    {b : b \in {a \in ConstructibleClaimArgs : a.amount \in EngineAmounts}}
BoundaryClaimArgs ==
    {b : b \in {a \in ConstructibleClaimArgs : a.id \in BoundaryClaimIds}}
TotalsClaimArgs ==
    {b : b \in {a \in [id : TotalsClaimIds, patient_id : PatientIds,
                         amount : {75, 500, 15000}, description : {GoodDescription},
                         status : {PENDING}] :
                    a.amount = TotalsAmount[a.id] /\ ClaimPostInit(a) = RetObject}}

----------------------------------------------------------------------------
(* The claims dict: a sequence of Claim records in insertion order, at most *)
(* one per id                                                               *)

ClaimIndex(id) == {i \in 1..Len(claims) : claims[i].id = id}
StoredIds == {claims[i].id : i \in 1..Len(claims)}

\* ClaimProcessor.get_claim: the set holding the claim, empty for None
get_claim(id) == {claims[i] : i \in ClaimIndex(id)}

\* ClaimProcessor.get_patient: the set holding the patient, empty for None
get_patient(id) == IF id \in DOMAIN patients THEN {patients[id]} ELSE {}

\* ClaimProcessor.get_claims_by_patient
get_claims_by_patient(patient_id) ==
    LET Test(c) == c.patient_id = patient_id IN SelectSeq(claims, Test)

\* ClaimProcessor.get_claims_by_status
get_claims_by_status(status) ==
    LET Test(c) == c.status = status IN SelectSeq(claims, Test)

\* sum(...) of the amounts of a list of claims, from 0 and from the left
RECURSIVE SumAmounts(_)
SumAmounts(list) ==
    IF list = <<>> THEN 0 ELSE SumAmounts(SubSeq(list, 1, Len(list) - 1)) + list[Len(list)].amount

\* calculate_total_approved_amount adding up the patient's claims of every status
calculate_total_approved_amount_AnyStatus(patient_id) ==
    LET Test(c) == c.patient_id = patient_id
    IN  SumAmounts(SelectSeq(claims, Test))

\* ClaimProcessor.calculate_total_approved_amount
calculate_total_approved_amount(patient_id) ==
    LET Test(c) == c.patient_id = patient_id /\ c.status = APPROVED
    IN  SumAmounts(SelectSeq(claims, Test))

(* What a caller sees of a call: its name, the id it was about, its outcome *)
(* and the object that went with it: for a call that was handed a Claim     *)
(* object, the fields of that object the engine can write (status,          *)
(* updated_at) as they are afterwards; for register_patient, the Patient    *)
(* object handed in.                                                        *)
NoObject == {}
Mutable(c) == {[status |-> c.status, updated_at |-> c.updated_at]}
NoCall == [op |-> "none", id |-> "", ret |-> "", arg |-> NoObject]

(* The callers that share one engine and run a call step by step.  Of each: *)
(* where it is in its call, the call's name and id, its local Claim object  *)
(* (submit_claim), whether that object is the one in the claims dict, the   *)
(* value returned, and whether the call ran while the other caller's did.   *)
Callers == {"A", "B"}
NoCaller ==
    [pc |-> "idle", op |-> "none", id |-> "", obj |-> NoObject, stored |-> FALSE,
     ret |-> "", overlap |-> FALSE]

----------------------------------------------------------------------------
(* Operations *)

Init ==
    /\ patients = <<>>
    /\ claims = <<>>
    /\ clock = 0
    /\ last = NoCall
    /\ users = <<>>
    /\ active_sessions = <<>>
    /\ tokens_drawn = 0
    /\ db_patients = <<>>
    /\ db_claims = <<>>
    /\ callers = [k \in Callers |-> NoCaller]

\* register_patient without the duplicate check: a second patient replaces the first
RegisterOutcome_Overwrite(p) == RetTrue

\* ClaimProcessor.register_patient: the duplicate check
RegisterOutcome(p) == IF p.id \in DOMAIN patients THEN RetFalse ELSE RetTrue

\* register_patient answering False for a registered id and storing the new
\* object all the same
RegisterPatient_Update(p) ==
    /\ patients' = [x \in DOMAIN patients \cup {p.id} |->
                       IF x = p.id THEN p ELSE patients[x]]
    /\ last' = [op |-> "register_patient", id |-> p.id, ret |-> RegisterOutcome(p),
                arg |-> {p}]
    /\ UNCHANGED <<claims, clock, authVars, dbVars, callers>>

\* ClaimProcessor.register_patient
RegisterPatient(p) ==
    /\ patients' = IF RegisterOutcome(p) = RetTrue
                   THEN [x \in DOMAIN patients \cup {p.id} |->
                            IF x = p.id THEN p ELSE patients[x]]
                   ELSE patients
    /\ last' = [op |-> "register_patient", id |-> p.id, ret |-> RegisterOutcome(p),
                arg |-> {p}]
    /\ UNCHANGED <<claims, clock, authVars, dbVars, callers>>

\* _process_claim with the auto-approval threshold excluded
ProcessStatus_Below(c) ==
    IF c.amount < auto_approve_threshold THEN APPROVED
    ELSE IF c.amount > review_threshold THEN REQUIRES_REVIEW
    ELSE PROCESSING

\* _process_claim that leaves a mid-range claim as it was constructed
ProcessStatus_NoDefault(c) ==
    IF c.amount <= auto_approve_threshold THEN APPROVED
    ELSE IF c.amount > review_threshold THEN REQUIRES_REVIEW
    ELSE c.status

\* _process_claim sending a claim of exactly the review threshold to review
ProcessStatus_ReviewAt(c) ==
    IF c.amount <= auto_approve_threshold THEN APPROVED
    ELSE IF c.amount >= review_threshold THEN REQUIRES_REVIEW
    ELSE PROCESSING

\* ClaimProcessor._process_claim: the status the business rules give a claim
ProcessStatus(c) ==
    IF c.amount <= auto_approve_threshold THEN APPROVED
    ELSE IF c.amount > review_threshold THEN REQUIRES_REVIEW
    ELSE PROCESSING

\* ClaimProcessor._process_claim
ProcessClaim(c) == [c EXCEPT !.status = ProcessStatus(c), !.updated_at = clock]

\* submit_claim without the ceiling check
SubmitOutcome_NoLimit(c) ==
    IF c.id \in StoredIds THEN RetFalse
    ELSE IF c.patient_id \notin DOMAIN patients THEN ReferentialError
    ELSE RetTrue

\* submit_claim without the patient check
SubmitOutcome_NoPatient(c) ==
    IF c.id \in StoredIds THEN RetFalse
    ELSE IF c.amount > max_claim_amount THEN LimitExceededError
    ELSE RetTrue

\* submit_claim that looks for the patient only while no claim is stored yet
SubmitOutcome_PatientOnce(c) ==
    IF c.id \in StoredIds THEN RetFalse
    ELSE IF claims = <<>> /\ c.patient_id \notin DOMAIN patients THEN ReferentialError
    ELSE IF c.amount > max_claim_amount THEN LimitExceededError
    ELSE RetTrue

\* submit_claim with the ceiling of DataValidator.validate_amount
SubmitOutcome_ValidatorCeiling(c) ==
    IF c.id \in StoredIds THEN RetFalse
    ELSE IF c.patient_id \notin DOMAIN patients THEN ReferentialError
    ELSE IF c.amount > 100000 THEN LimitExceededError
    ELSE RetTrue

\* submit_claim without the duplicate-id check
SubmitOutcome_NoDuplicate(c) ==
    IF c.patient_id \notin DOMAIN patients THEN ReferentialError
    ELSE IF c.amount > max_claim_amount THEN LimitExceededError
    ELSE RetTrue

\* submit_claim testing the ceiling before the patient
SubmitOutcome_CeilingFirst(c) ==
    IF c.id \in StoredIds THEN RetFalse
    ELSE IF c.amount > max_claim_amount THEN LimitExceededError
    ELSE IF c.patient_id \notin DOMAIN patients THEN ReferentialError
    ELSE RetTrue

\* ClaimProcessor.submit_claim: the checks, in the order of the code
SubmitOutcome(c) ==
    IF c.id \in StoredIds THEN RetFalse
    ELSE IF c.patient_id \notin DOMAIN patients THEN ReferentialError
    ELSE IF c.amount > max_claim_amount THEN LimitExceededError
    ELSE RetTrue

\* the caller's Claim object after submit_claim: the stored object is the
\* caller's object, so a successful call leaves it processed
SubmittedObject(c) == IF SubmitOutcome(c) = RetTrue THEN ProcessClaim(c) ELSE c

\* submit_claim: what it writes
SubmitStore(c) ==
    /\ claims' = IF SubmitOutcome(c) = RetTrue THEN Append(claims, SubmittedObject(c))
                 ELSE claims
    /\ UNCHANGED <<patients, clock, authVars, dbVars, callers>>

\* ClaimProcessor.submit_claim
SubmitClaim(c) ==
    /\ SubmitStore(c)
    /\ last' = [op |-> "submit_claim", id |-> c.id, ret |-> SubmitOutcome(c),
                arg |-> Mutable(SubmittedObject(c))]

\* the status test taking only rejected for final
IsTerminal_RejectedOnly(status) == status = REJECTED

\* the status test taking only approved for final
IsTerminal_ApprovedOnly(status) == status = APPROVED

\* the status test of approve_claim and reject_claim
IsTerminal(status) == status \in {APPROVED, REJECTED}

\* approve_claim and reject_claim without the status test
TransitionOutcome_Unguarded(id) ==
    IF get_claim(id) = {} THEN RetFalse ELSE RetTrue

\* approve_claim and reject_claim accepting only a claim that is processing
TransitionOutcome_ProcessingOnly(id) ==
    IF get_claim(id) = {} THEN RetFalse
    ELSE IF \E c \in get_claim(id) : c.status # PROCESSING THEN RetFalse
    ELSE RetTrue

\* approve_claim and reject_claim answering True for an id that is not stored
TransitionOutcome_AbsentAccepted(id) ==
    IF get_claim(id) = {} THEN RetTrue
    ELSE IF \E c \in get_claim(id) : IsTerminal(c.status) THEN RetFalse
    ELSE RetTrue

\* approve_claim and reject_claim asking for some active session
TransitionOutcome_NeedsSession(id) ==
    IF DOMAIN active_sessions = {} THEN RetFalse
    ELSE IF get_claim(id) = {} THEN RetFalse
    ELSE IF \E c \in get_claim(id) : IsTerminal(c.status) THEN RetFalse
    ELSE RetTrue

\* approve_claim and reject_claim: the two early returns
TransitionOutcome(id) ==
    IF get_claim(id) = {} THEN RetFalse
    ELSE IF \E c \in get_claim(id) : IsTerminal(c.status) THEN RetFalse
    ELSE RetTrue

\* a write that takes the claim out of the dict and puts it back in, last
SetStatus_Reinserted(id, status) ==
    LET Other(c) == c.id # id
        Same(c) == c.id = id
        moved == SelectSeq(claims, Same)
    IN  SelectSeq(claims, Other) \o
        [i \in 1..Len(moved) |-> [moved[i] EXCEPT !.status = status, !.updated_at = clock]]

\* a write of the status that leaves updated_at as it was
SetStatus_KeepsTime(id, status) ==
    [i \in 1..Len(claims) |->
        IF claims[i].id = id THEN [claims[i] EXCEPT !.status = status] ELSE claims[i]]

\* approve_claim and reject_claim: the write to the stored claim
SetStatus(id, status) ==
    [i \in 1..Len(claims) |->
        IF claims[i].id = id
        THEN [claims[i] EXCEPT !.status = status, !.updated_at = clock]
        ELSE claims[i]]

\* ClaimProcessor.approve_claim
ApproveClaim(id) ==
    /\ claims' = IF TransitionOutcome(id) = RetTrue THEN SetStatus(id, APPROVED) ELSE claims
    /\ last' = [op |-> "approve_claim", id |-> id, ret |-> TransitionOutcome(id),
                arg |-> NoObject]
    /\ UNCHANGED <<patients, clock, authVars, dbVars, callers>>

\* ClaimProcessor.reject_claim: the reason is accepted and not used
RejectClaim(id, reason) ==
    /\ claims' = IF TransitionOutcome(id) = RetTrue THEN SetStatus(id, REJECTED) ELSE claims
    /\ last' = [op |-> "reject_claim", id |-> id, ret |-> TransitionOutcome(id),
                arg |-> NoObject]
    /\ UNCHANGED <<patients, clock, authVars, dbVars, callers>>

\* time passes between two calls
Tick ==
    /\ clock < MaxClock
    /\ clock' = clock + 1
    /\ last' = NoCall
    /\ UNCHANGED <<patients, claims, authVars, dbVars, callers>>

DoRegisterPatient == \E p \in ConstructedPatients : RegisterPatient(p)
DoSubmitClaim(args) == \E c \in ConstructedClaims(args) : SubmitClaim(c)
DoApproveClaim == \E id \in ClaimIds : ApproveClaim(id)
DoRejectClaim == \E id \in ClaimIds, reason \in Reasons : RejectClaim(id, reason)

\* the engine with two claim ids and one amount for each outcome, all within
\* one reading of the clock
Next ==
    \/ DoRegisterPatient
    \/ DoSubmitClaim(EngineClaimArgs)
    \/ DoApproveClaim
    \/ DoRejectClaim

Spec == Init /\ [][Next]_vars

\* the engine with one claim id, every amount and a clock that advances
NextBoundary ==
    \/ Tick
    \/ DoRegisterPatient
    \/ DoSubmitClaim(BoundaryClaimArgs)
    \/ DoApproveClaim
    \/ DoRejectClaim

SpecBoundary == Init /\ [][NextBoundary]_vars

DoApproveAmong(ids) == \E id \in ids : ApproveClaim(id)
DoRejectAmong(ids) == \E id \in ids, reason \in Reasons : RejectClaim(id, reason)

\* the engine with three claims of fixed amounts, for either patient, all
\* within one reading of the clock
NextTotals ==
    \/ DoRegisterPatient
    \/ DoSubmitClaim(TotalsClaimArgs)
    \/ DoApproveAmong(TotalsClaimIds)
    \/ DoRejectAmong(TotalsClaimIds)

SpecTotals == Init /\ [][NextTotals]_vars

\* the arguments of the runs that construct: one patient id that can be
\* registered and one that cannot, one claim id,
\* every email, insurance id, amount and description
ConstructPatientArgs ==
    [id : {"P1"}, name : {"Ann"}, email : ConstructEmails, insurance_id : InsuranceIds]
ConstructClaimArgs ==
    [id : {"C1"}, patient_id : {"P1", UnknownPatientId}, amount : Amounts,
     description : ConstructDescriptions, status : ConstructStatuses]

\* Patient(...): the call ends in an object or in the ValueError of __post_init__
NewPatient(a) ==
    /\ last' = [op |-> "Patient", id |-> a.id, ret |-> PatientPostInit(a), arg |-> {a}]
    /\ UNCHANGED <<patients, claims, clock, authVars, dbVars, callers>>

\* Claim(...): the call ends in an object or in the ValueError of __post_init__
NewClaim(a) ==
    /\ last' = [op |-> "Claim", id |-> a.id, ret |-> ClaimPostInit(a), arg |-> {a}]
    /\ UNCHANGED <<patients, claims, clock, authVars, dbVars, callers>>

\* the caller registers the Patient object it has just constructed
RegisterConstructed ==
    /\ last.op = "Patient" /\ last.ret = RetObject
    /\ \E a \in last.arg : RegisterPatient(a)

\* the caller submits the Claim object it has just constructed; the whole
\* object, as it is after the call, stays in view
SubmitConstructed ==
    /\ last.op = "Claim" /\ last.ret = RetObject
    /\ \E a \in last.arg :
           LET c == NewClaimObject(a, clock, clock) IN
           /\ SubmitStore(c)
           /\ last' = [op |-> "submit_claim", id |-> c.id, ret |-> SubmitOutcome(c),
                       arg |-> {SubmittedObject(c)}]

DoNewPatient == \E a \in ConstructPatientArgs : NewPatient(a)
DoNewClaim == \E a \in ConstructClaimArgs : NewClaim(a)

\* the engine fed by the constructors: what is registered or submitted is an
\* object a constructor call has returned
NextConstruct ==
    \/ DoNewPatient
    \/ DoNewClaim
    \/ RegisterConstructed
    \/ SubmitConstructed
    \/ DoApproveClaim
    \/ DoRejectClaim

SpecConstruct == Init /\ [][NextConstruct]_vars

----------------------------------------------------------------------------
(* class AuthenticationService.  The users dict is a sequence of user       *)
(* records in insertion order, at most one per id; the call's arguments are *)
(* a record a of id, email, password and user_type.                         *)

UserArgs ==
    [id : UserIds, email : UserEmails, password : Passwords, user_type : RegisteredTypes]
Credentials == UserEmails \X Passwords

UserIndex(id) == {i \in 1..Len(users) : users[i].id = id}
RegisteredIds == {users[i].id : i \in 1..Len(users)}

\* register_user validating the email and the password before looking at the id
RegisterUserOutcome_ValidationFirst(a) ==
    IF a.email = <<>> \/ ~EmailMatches(a.email) THEN InvalidEmail
    ELSE IF Len(a.password) < 8 THEN PasswordTooShort
    ELSE IF a.id \in RegisteredIds THEN RetFalse
    ELSE RetTrue

\* register_user without the duplicate-id check
RegisterUserOutcome_NoDuplicate(a) ==
    IF a.email = <<>> \/ ~EmailMatches(a.email) THEN InvalidEmail
    ELSE IF Len(a.password) < 8 THEN PasswordTooShort
    ELSE RetTrue

\* AuthenticationService.register_user: the checks, in the order of the code
RegisterUserOutcome(a) ==
    IF a.id \in RegisteredIds THEN RetFalse
    ELSE IF a.email = <<>> \/ ~EmailMatches(a.email) THEN InvalidEmail
    ELSE IF Len(a.password) < 8 THEN PasswordTooShort
    ELSE RetTrue

\* the user data register_user stores
NewUser(a) ==
    [id |-> a.id, email |-> a.email, password |-> a.password,
     user_type |-> a.user_type, created_at |-> clock, is_active |-> TRUE]

\* a write that puts a new user before the users that are there
StoreUser_AtHead(a) ==
    IF a.id \in RegisteredIds
    THEN [i \in 1..Len(users) |-> IF users[i].id = a.id THEN NewUser(a) ELSE users[i]]
    ELSE <<NewUser(a)>> \o users

\* self.users[user_id] = {...}: a new key goes last, a key that is there keeps
\* its place and gets the new data
StoreUser(a) ==
    IF a.id \in RegisteredIds
    THEN [i \in 1..Len(users) |-> IF users[i].id = a.id THEN NewUser(a) ELSE users[i]]
    ELSE Append(users, NewUser(a))

\* AuthenticationService.register_user
RegisterUser(a) ==
    /\ users' = IF RegisterUserOutcome(a) = RetTrue THEN StoreUser(a) ELSE users
    /\ last' = [op |-> "register_user", id |-> a.id, ret |-> RegisterUserOutcome(a),
                arg |-> {[email |-> a.email, password |-> a.password,
                          user_type |-> a.user_type]}]
    /\ UNCHANGED <<patients, claims, clock, active_sessions, tokens_drawn, dbVars, callers>>

\* the user info authenticate returns for a stored user
UserView(u) == [user_id |-> u.id, email |-> u.email, user_type |-> u.user_type]

\* the test of the loop of authenticate
Matches(u, email, password) ==
    u.email = email /\ u.password = password /\ u.is_active

\* authenticate returning the match registered last
authenticate_LastMatch(email, password) ==
    LET hits == {i \in 1..Len(users) : Matches(users[i], email, password)}
    IN  IF hits = {} THEN {}
        ELSE {UserView(users[CHOOSE i \in hits : \A j \in hits : j <= i])}

\* the loop of authenticate from the i-th user on: the first match returns
RECURSIVE AuthenticateFrom(_, _, _)
AuthenticateFrom(i, email, password) ==
    IF i > Len(users) THEN {}
    ELSE IF Matches(users[i], email, password) THEN {UserView(users[i])}
    ELSE AuthenticateFrom(i + 1, email, password)

\* AuthenticationService.authenticate: the set holding the user info, empty for None
authenticate(email, password) == AuthenticateFrom(1, email, password)

\* a call of authenticate: nothing is written
Authenticate(email, password) ==
    /\ last' = [op |-> "authenticate", id |-> "",
                ret |-> IF authenticate(email, password) = {} THEN RetNone ELSE RetObject,
                arg |-> authenticate(email, password)]
    /\ UNCHANGED <<patients, claims, clock, authVars, dbVars, callers>>

\* secrets.token_urlsafe(32): a token that was not drawn before
NewToken == tokens_drawn + 1

\* create_session refusing a user id that is not registered
CreateSessionOutcome_Checked(user_id) ==
    IF user_id \in RegisteredIds THEN RetObject ELSE "ValueError: User not found"

\* create_session: a token is returned whatever the user id
CreateSessionOutcome(user_id) == RetObject

\* a write that ends the sessions the user already has
SessionsWith_OnePerUser(token, user_id) ==
    [t \in {x \in DOMAIN active_sessions : active_sessions[x] # user_id} \cup {token} |->
        IF t = token THEN user_id ELSE active_sessions[t]]

\* self.active_sessions[token] = user_id
SessionsWith(token, user_id) ==
    [t \in DOMAIN active_sessions \cup {token} |->
        IF t = token THEN user_id ELSE active_sessions[t]]

\* AuthenticationService.create_session
CreateSession(user_id) ==
    /\ tokens_drawn < MaxTokens
    /\ tokens_drawn' = tokens_drawn + 1
    /\ active_sessions' =
           IF CreateSessionOutcome(user_id) = RetObject
           THEN SessionsWith(NewToken, user_id)
           ELSE active_sessions
    /\ last' = [op |-> "create_session", id |-> user_id,
                ret |-> CreateSessionOutcome(user_id),
                arg |-> IF CreateSessionOutcome(user_id) = RetObject THEN {NewToken} ELSE {}]
    /\ UNCHANGED <<patients, claims, clock, users, dbVars, callers>>

\* AuthenticationService.validate_session: the user id, None for a token that
\* is not a key
validate_session(token) ==
    IF token \in DOMAIN active_sessions THEN active_sessions[token] ELSE RetNone

\* validate_session using the token up: active_sessions.pop(token, None)
ValidateSession_Consuming(token) ==
    /\ active_sessions' = [t \in DOMAIN active_sessions \ {token} |-> active_sessions[t]]
    /\ last' = [op |-> "validate_session", id |-> "", ret |-> validate_session(token),
                arg |-> {token}]
    /\ UNCHANGED <<patients, claims, clock, users, tokens_drawn, dbVars, callers>>

\* a call of validate_session: nothing is written
ValidateSession(token) ==
    /\ last' = [op |-> "validate_session", id |-> "", ret |-> validate_session(token),
                arg |-> {token}]
    /\ UNCHANGED <<patients, claims, clock, authVars, dbVars, callers>>

\* logout answering True for every token
LogoutOutcome_AlwaysTrue(token) == RetTrue

\* AuthenticationService.logout: the test
LogoutOutcome(token) == IF token \in DOMAIN active_sessions THEN RetTrue ELSE RetFalse

\* logout ending every session of the token's user
SessionsWithout_WholeUser(token) ==
    [t \in {x \in DOMAIN active_sessions : active_sessions[x] # active_sessions[token]}
        |-> active_sessions[t]]

\* del self.active_sessions[token]
SessionsWithout(token) ==
    [t \in DOMAIN active_sessions \ {token} |-> active_sessions[t]]

\* AuthenticationService.logout
Logout(token) ==
    /\ active_sessions' = IF LogoutOutcome(token) = RetTrue
                          THEN SessionsWithout(token) ELSE active_sessions
    /\ last' = [op |-> "logout", id |-> "", ret |-> LogoutOutcome(token), arg |-> {token}]
    /\ UNCHANGED <<patients, claims, clock, users, tokens_drawn, dbVars, callers>>

DoRegisterUser(args) == \E a \in args : RegisterUser(a)
DoAuthenticate(creds) == \E c \in creds : Authenticate(c[1], c[2])
DoCreateSession(ids) == \E user_id \in ids : CreateSession(user_id)
DoValidateSession == \E token \in Tokens : ValidateSession(token)
DoLogout == \E token \in Tokens : Logout(token)

\* the users of the service: two ids, every email and password, no sessions
NextUsers ==
    \/ DoRegisterUser(UserArgs)
    \/ DoAuthenticate(Credentials)

SpecUsers == Init /\ [][NextUsers]_vars

\* the arguments and the user ids of the runs with sessions: one user that can
\* be registered, and sessions for it and for an id that never is
SessionUserArgs ==
    {a \in UserArgs : a.id = "U1" /\ a.email = GoodEmail /\ a.password = GoodPassword
                      /\ a.user_type = PATIENT}
SessionCredentials == {<<GoodEmail, GoodPassword>>, <<GoodEmail, OtherPassword>>}
SessionUserIds == {"U1", UnknownUserId}

\* the sessions of the service, next to registrations and authentications
NextSessions ==
    \/ DoRegisterUser(SessionUserArgs)
    \/ DoAuthenticate(SessionCredentials)
    \/ DoCreateSession(SessionUserIds)
    \/ DoValidateSession
    \/ DoLogout

SpecSessions == Init /\ [][NextSessions]_vars

\* the engine and the service side by side: one patient, one claim of 101 or
\* 50001, one user, sessions for that user and for an id nobody registers
SideBySidePatients == {q : q \in {p \in ConstructedPatients : p.id = "P1" /\ p.name = "Ann"}}
SideBySideClaimArgs ==
    {b : b \in {a \in ConstructibleClaimArgs :
                    /\ a.id = "C1" /\ a.patient_id = "P1" /\ a.amount \in {101, 50001}
                    /\ a.description = GoodDescription /\ a.status = PENDING}}

DoRegisterAmong(ps) == \E p \in ps : RegisterPatient(p)

NextSideBySide ==
    \/ DoRegisterAmong(SideBySidePatients)
    \/ DoSubmitClaim(SideBySideClaimArgs)
    \/ DoApproveAmong(BoundaryClaimIds)
    \/ DoRejectAmong(BoundaryClaimIds)
    \/ DoRegisterUser(SessionUserArgs)
    \/ DoAuthenticate(SessionCredentials)
    \/ DoCreateSession(SessionUserIds)
    \/ DoValidateSession
    \/ DoLogout

SpecSideBySide == Init /\ [][NextSideBySide]_vars

(* The queries of the engine as calls: the answer goes to the caller and *)
(* nothing is written                                                     *)

\* a call of get_patient
GetPatient(patient_id) ==
    /\ last' = [op |-> "get_patient", id |-> patient_id,
                ret |-> IF get_patient(patient_id) = {} THEN RetNone ELSE RetObject,
                arg |-> get_patient(patient_id)]
    /\ UNCHANGED <<engineVars, authVars, dbVars, callers>>

\* a call of get_claim
GetClaim(claim_id) ==
    /\ last' = [op |-> "get_claim", id |-> claim_id,
                ret |-> IF get_claim(claim_id) = {} THEN RetNone ELSE RetObject,
                arg |-> get_claim(claim_id)]
    /\ UNCHANGED <<engineVars, authVars, dbVars, callers>>

\* a call of get_claims_by_patient: a new list
GetClaimsByPatient(patient_id) ==
    /\ last' = [op |-> "get_claims_by_patient", id |-> patient_id, ret |-> RetObject,
                arg |-> {get_claims_by_patient(patient_id)}]
    /\ UNCHANGED <<engineVars, authVars, dbVars, callers>>

\* a call of get_claims_by_status: a new list
GetClaimsByStatus(status) ==
    /\ last' = [op |-> "get_claims_by_status", id |-> status, ret |-> RetObject,
                arg |-> {get_claims_by_status(status)}]
    /\ UNCHANGED <<engineVars, authVars, dbVars, callers>>

\* a call of calculate_total_approved_amount
CalculateTotalApprovedAmount(patient_id) ==
    /\ last' = [op |-> "calculate_total_approved_amount", id |-> patient_id,
                ret |-> RetObject,
                arg |-> {calculate_total_approved_amount(patient_id)}]
    /\ UNCHANGED <<engineVars, authVars, dbVars, callers>>

\* what the queries are asked for: a registered and an unregistered patient,
\* a stored and an unstored claim id, two statuses
QueryPatientIds == {"P1", UnknownPatientId}
QueryStatuses == {PROCESSING, APPROVED}

DoGetPatient == \E patient_id \in QueryPatientIds : GetPatient(patient_id)
DoGetClaim == \E claim_id \in ClaimIds : GetClaim(claim_id)
DoGetClaimsByPatient == \E patient_id \in QueryPatientIds : GetClaimsByPatient(patient_id)
DoGetClaimsByStatus == \E status \in QueryStatuses : GetClaimsByStatus(status)
DoCalculateTotalApprovedAmount ==
    \E patient_id \in QueryPatientIds : CalculateTotalApprovedAmount(patient_id)

\* the claim of the runs with queries
QueryClaimArgs == {b : b \in {a \in SideBySideClaimArgs : a.amount = 101}}

\* the engine and the service with their queries, and a clock that advances
NextQueries ==
    \/ Tick
    \/ DoRegisterAmong(SideBySidePatients)
    \/ DoSubmitClaim(QueryClaimArgs)
    \/ DoApproveAmong(BoundaryClaimIds)
    \/ DoRejectAmong(BoundaryClaimIds)
    \/ DoRegisterUser(SessionUserArgs)
    \/ DoCreateSession({"U1"})
    \/ DoLogout
    \/ DoGetPatient
    \/ DoGetClaim
    \/ DoGetClaimsByPatient
    \/ DoGetClaimsByStatus
    \/ DoCalculateTotalApprovedAmount
    \/ DoAuthenticate(SessionCredentials)
    \/ DoValidateSession

SpecQueries == Init /\ [][NextQueries]_vars

----------------------------------------------------------------------------
(* class DatabaseManager *)

\* a status text that is none of ClaimStatus
OtherStatusText == "on hold"

\* the patient_data and claim_data passed to the inserts, and the statuses
\* passed to update_claim_status
DbPatientData ==
    [id : PatientIds, name : {"Ann"}, email : {GoodEmail, OtherEmail},
     insurance_id : {"INS12345"}]
DbClaimData ==
    [id : ClaimIds, patient_id : {"P1", UnknownPatientId}, amount : {100},
     status : {PENDING, APPROVED}]
DbStatuses == {APPROVED, REJECTED, OtherStatusText}

\* INSERT INTO patients with id as the only constraint
InsertPatientOutcome_IdOnly(d) ==
    IF d.id \in DOMAIN db_patients THEN RetFalse ELSE RetTrue

\* insert_patient: sqlite3.IntegrityError, answered False, for a row that breaks
\* id TEXT PRIMARY KEY or email TEXT UNIQUE
InsertPatientOutcome(d) ==
    IF d.id \in DOMAIN db_patients THEN RetFalse
    ELSE IF \E x \in DOMAIN db_patients : db_patients[x].email = d.email THEN RetFalse
    ELSE RetTrue

\* the row INSERT INTO patients adds
PatientRow(d) ==
    [id |-> d.id, name |-> d.name, email |-> d.email, insurance_id |-> d.insurance_id,
     created_at |-> clock]

\* DatabaseManager.insert_patient
InsertPatient(d) ==
    /\ db_patients' = IF InsertPatientOutcome(d) = RetTrue
                      THEN [x \in DOMAIN db_patients \cup {d.id} |->
                               IF x = d.id THEN PatientRow(d) ELSE db_patients[x]]
                      ELSE db_patients
    /\ last' = [op |-> "insert_patient", id |-> d.id, ret |-> InsertPatientOutcome(d),
                arg |-> {d}]
    /\ UNCHANGED <<engineVars, authVars, db_claims, callers>>

\* INSERT INTO claims with the foreign key enforced
InsertClaimOutcome_ForeignKey(d) ==
    IF d.id \in DOMAIN db_claims THEN RetFalse
    ELSE IF d.patient_id \notin DOMAIN db_patients THEN RetFalse
    ELSE RetTrue

\* insert_claim: sqlite3.IntegrityError, answered False, for a row that breaks
\* id TEXT PRIMARY KEY
InsertClaimOutcome(d) ==
    IF d.id \in DOMAIN db_claims THEN RetFalse ELSE RetTrue

\* the row INSERT INTO claims adds
ClaimRow(d) ==
    [id |-> d.id, patient_id |-> d.patient_id, amount |-> d.amount, status |-> d.status,
     created_at |-> clock, updated_at |-> clock]

\* DatabaseManager.insert_claim
InsertClaim(d) ==
    /\ db_claims' = IF InsertClaimOutcome(d) = RetTrue
                    THEN [x \in DOMAIN db_claims \cup {d.id} |->
                             IF x = d.id THEN ClaimRow(d) ELSE db_claims[x]]
                    ELSE db_claims
    /\ last' = [op |-> "insert_claim", id |-> d.id, ret |-> InsertClaimOutcome(d),
                arg |-> {d}]
    /\ UNCHANGED <<engineVars, authVars, db_patients, callers>>

\* an UPDATE that passes over rows that are approved or rejected
UpdatedRows_Guarded(claim_id, status) ==
    {x \in DOMAIN db_claims : x = claim_id /\ ~IsTerminal(db_claims[x].status)}

\* UPDATE claims ... WHERE id = ?: the rows that are written
UpdatedRows(claim_id, status) == {x \in DOMAIN db_claims : x = claim_id}

\* DatabaseManager.update_claim_status: cursor.rowcount > 0
UpdateClaimStatus(claim_id, status) ==
    /\ db_claims' = [x \in DOMAIN db_claims |->
                        IF x \in UpdatedRows(claim_id, status)
                        THEN [db_claims[x] EXCEPT !.status = status, !.updated_at = clock]
                        ELSE db_claims[x]]
    /\ last' = [op |-> "update_claim_status", id |-> claim_id,
                ret |-> IF Cardinality(UpdatedRows(claim_id, status)) > 0
                        THEN RetTrue ELSE RetFalse,
                arg |-> {status}]
    /\ UNCHANGED <<engineVars, authVars, db_patients, callers>>

DoInsertPatient == \E d \in DbPatientData : InsertPatient(d)
DoInsertClaim == \E d \in DbClaimData : InsertClaim(d)
DoUpdateClaimStatus == \E id \in ClaimIds, status \in DbStatuses : UpdateClaimStatus(id, status)

\* the storage on its own
NextStorage ==
    \/ DoInsertPatient
    \/ DoInsertClaim
    \/ DoUpdateClaimStatus

SpecStorage == Init /\ [][NextStorage]_vars

\* DatabaseManager.get_claims_by_patient and get_claims_by_status: the rows
\* selected, in no order
db_get_claims_by_patient(patient_id) ==
    {db_claims[x] : x \in {y \in DOMAIN db_claims : db_claims[y].patient_id = patient_id}}
db_get_claims_by_status(status) ==
    {db_claims[x] : x \in {y \in DOMAIN db_claims : db_claims[y].status = status}}

(* The caller of the integration test: after each engine call that returned *)
(* True it makes the matching storage call before its next engine call.     *)
MirrorPending == last.op \in {"register_patient", "submit_claim", "approve_claim",
                              "reject_claim"} /\ last.ret = RetTrue

\* insert_patient with the fields of the patient just registered
MirrorRegister ==
    /\ last.op = "register_patient" /\ last.ret = RetTrue
    /\ \E p \in get_patient(last.id) :
           InsertPatient([id |-> p.id, name |-> p.name, email |-> p.email,
                          insurance_id |-> p.insurance_id])

\* insert_claim with the fields of the claim just submitted, status = claim.status.value
MirrorSubmit ==
    /\ last.op = "submit_claim" /\ last.ret = RetTrue
    /\ \E c \in get_claim(last.id) :
           InsertClaim([id |-> c.id, patient_id |-> c.patient_id, amount |-> c.amount,
                        status |-> c.status])

\* update_claim_status(id, "approved") and update_claim_status(id, "rejected")
MirrorDecision ==
    \/ /\ last.op = "approve_claim" /\ last.ret = RetTrue
       /\ UpdateClaimStatus(last.id, "approved")
    \/ /\ last.op = "reject_claim" /\ last.ret = RetTrue
       /\ UpdateClaimStatus(last.id, "rejected")

\* the engine with the three claims, mirrored into the storage
NextMirror ==
    \/ ~MirrorPending /\ DoRegisterPatient
    \/ ~MirrorPending /\ DoSubmitClaim(TotalsClaimArgs)
    \/ ~MirrorPending /\ DoApproveAmong(TotalsClaimIds)
    \/ ~MirrorPending /\ DoRejectAmong(TotalsClaimIds)
    \/ MirrorRegister
    \/ MirrorSubmit
    \/ MirrorDecision

SpecMirror == Init /\ [][NextMirror]_vars

(* DatabaseManager.get_claim_statistics: three SELECTs over the claims table *)

\* the claim_data of the runs that report: three ids, two amounts
StatsClaimData ==
    [id : TotalsClaimIds, patient_id : {"P1"}, amount : {100, 250},
     status : {PENDING, APPROVED}]

\* date('now', '-30 days'), one reading of the clock taken for a day
recent_days == 30

\* the rows of one group of GROUP BY status
GroupRows(status) == {x \in DOMAIN db_claims : db_claims[x].status = status}

\* SUM(amount) over a set of rows
RECURSIVE SumRows(_)
SumRows(rows) ==
    IF rows = {} THEN 0
    ELSE LET x == CHOOSE y \in rows : TRUE
         IN  db_claims[x].amount + SumRows(rows \ {x})

\* a count of the different amounts of a group instead of its rows
GroupCount_DistinctAmount(status) ==
    Cardinality({db_claims[x].amount : x \in GroupRows(status)})

\* COUNT(*) of one group
GroupCount(status) == Cardinality(GroupRows(status))

\* SELECT COUNT(*) as total FROM claims
total_claims == Cardinality(DOMAIN db_claims)

\* SELECT status, COUNT(*), AVG(amount), SUM(amount) ... GROUP BY status, as the
\* dict keyed by row['status']; avg_amount is total_amount / count and is kept
\* as these two terms
status_stats ==
    [s \in {db_claims[x].status : x \in DOMAIN db_claims} |->
        [status |-> s, count |-> GroupCount(s),
         avg_amount |-> <<SumRows(GroupRows(s)), GroupCount(s)>>,
         total_amount |-> SumRows(GroupRows(s))]]

\* SELECT COUNT(*) ... WHERE created_at >= date('now', '-30 days')
recent_claims ==
    Cardinality({x \in DOMAIN db_claims : db_claims[x].created_at >= clock - recent_days})

\* the dict get_claim_statistics returns
get_claim_statistics ==
    [total_claims |-> total_claims, status_breakdown |-> status_stats,
     recent_claims_30_days |-> recent_claims]

\* DatabaseManager.get_claim_statistics
GetClaimStatistics ==
    /\ last' = [op |-> "get_claim_statistics", id |-> "", ret |-> RetObject,
                arg |-> {get_claim_statistics}]
    /\ UNCHANGED <<engineVars, authVars, dbVars, callers>>

DoInsertStatsClaim == \E d \in StatsClaimData : InsertClaim(d)
DoUpdateStatsClaim ==
    \E id \in TotalsClaimIds, status \in DbStatuses : UpdateClaimStatus(id, status)

\* the claims table written and reported on
NextStatistics ==
    \/ DoInsertStatsClaim
    \/ DoUpdateStatsClaim
    \/ GetClaimStatistics

SpecStatistics == Init /\ [][NextStatistics]_vars

(* Utility functions *)

\* the amounts handed to calculate_claim_processing_fee: negative, around
\* zero and around each tier boundary, and one far above
FeeAmounts ==
    (-20..20) \cup (980..1020) \cup (4980..5020) \cup {max_claim_amount}

\* the tiers with their boundaries in the upper tier
calculate_claim_processing_fee_Strict(amount) ==
    IF amount < 1000 THEN 25
    ELSE IF amount < 5000 THEN 50
    ELSE 100

\* calculate_claim_processing_fee
calculate_claim_processing_fee(amount) ==
    IF amount <= 1000 THEN 25
    ELSE IF amount <= 5000 THEN 50
    ELSE 100

\* a call of calculate_claim_processing_fee: the amount passed and the fee returned
CalculateFee(amount) ==
    /\ last' = [op |-> "calculate_claim_processing_fee", id |-> "", ret |-> RetObject,
                arg |-> {[amount |-> amount,
                          fee |-> calculate_claim_processing_fee(amount)]}]
    /\ UNCHANGED <<engineVars, authVars, dbVars, callers>>

NextFee == \E amount \in FeeAmounts : CalculateFee(amount)

SpecFee == Init /\ [][NextFee]_vars

(* Two callers on one engine, no lock: approve_claim and reject_claim run *)
(* statement by statement, the statements of the two callers in any order *)

\* the other caller
Other(k) == CHOOSE j \in Callers : j # k

\* a caller is inside a call
Busy(k) == callers[k].pc \notin {"idle", "done"}

\* the callers when k enters a call: the two calls overlap when the other
\* caller is inside one
Entered(k, pc, op, id, obj) ==
    [j \in Callers |->
        IF j = k
        THEN [pc |-> pc, op |-> op, id |-> id, obj |-> obj, stored |-> FALSE,
              ret |-> "", overlap |-> Busy(Other(k))]
        ELSE [callers[j] EXCEPT !.overlap = @ \/ Busy(j)]]

\* the callers when k returns
Returned(k, ret) == [callers EXCEPT ![k].pc = "done", ![k].ret = ret]

\* what a returning caller's call shows
Outcome(k, ret) == [op |-> callers[k].op, id |-> callers[k].id, ret |-> ret, arg |-> {k}]

\* the status each of the two operations writes
DecisionStatus(op) == IF op = "approve_claim" THEN APPROVED ELSE REJECTED

\* caller k calls approve_claim(id) or reject_claim(id)
BeginDecision(k, op, id) ==
    /\ ~Busy(k)
    /\ callers' = Entered(k, "lookup", op, id, NoObject)
    /\ last' = NoCall
    /\ UNCHANGED <<engineVars, authVars, dbVars>>

\* claim = self.claims.get(claim_id); if not claim: return False
DecisionLookup(k) ==
    /\ callers[k].pc = "lookup"
    /\ IF get_claim(callers[k].id) = {}
       THEN callers' = Returned(k, RetFalse) /\ last' = Outcome(k, RetFalse)
       ELSE callers' = [callers EXCEPT ![k].pc = "check"] /\ last' = NoCall
    /\ UNCHANGED <<engineVars, authVars, dbVars>>

\* the check left out: every stored claim goes on to the write
DecisionCheck_Skipped(k) ==
    /\ callers[k].pc = "check"
    /\ callers' = [callers EXCEPT ![k].pc = "write"] /\ last' = NoCall
    /\ UNCHANGED <<engineVars, authVars, dbVars>>

\* if claim.status in [ClaimStatus.APPROVED, ClaimStatus.REJECTED]: return False
DecisionCheck(k) ==
    /\ callers[k].pc = "check"
    /\ IF \E c \in get_claim(callers[k].id) : IsTerminal(c.status)
       THEN callers' = Returned(k, RetFalse) /\ last' = Outcome(k, RetFalse)
       ELSE callers' = [callers EXCEPT ![k].pc = "write"] /\ last' = NoCall
    /\ UNCHANGED <<engineVars, authVars, dbVars>>

\* claim.status = ...: the status of the stored claim alone
WriteStatus(id, status) ==
    [i \in 1..Len(claims) |->
        IF claims[i].id = id THEN [claims[i] EXCEPT !.status = status] ELSE claims[i]]

\* claim.updated_at = datetime.now()
WriteTime(id) ==
    [i \in 1..Len(claims) |->
        IF claims[i].id = id THEN [claims[i] EXCEPT !.updated_at = clock] ELSE claims[i]]

\* claim.status = ClaimStatus.APPROVED, or REJECTED
DecisionWrite(k) ==
    /\ callers[k].pc = "write"
    /\ claims' = WriteStatus(callers[k].id, DecisionStatus(callers[k].op))
    /\ callers' = [callers EXCEPT ![k].pc = "stamp"]
    /\ last' = NoCall
    /\ UNCHANGED <<patients, clock, authVars, dbVars>>

\* claim.updated_at = datetime.now(); return True
DecisionStamp(k) ==
    /\ callers[k].pc = "stamp"
    /\ claims' = WriteTime(callers[k].id)
    /\ callers' = Returned(k, RetTrue)
    /\ last' = Outcome(k, RetTrue)
    /\ UNCHANGED <<patients, clock, authVars, dbVars>>

DoBeginDecision ==
    \E k \in Callers, op \in {"approve_claim", "reject_claim"}, id \in BoundaryClaimIds :
        BeginDecision(k, op, id)
DoDecisionLookup == \E k \in Callers : DecisionLookup(k)
DoDecisionCheck == \E k \in Callers : DecisionCheck(k)
DoDecisionWrite == \E k \in Callers : DecisionWrite(k)
DoDecisionStamp == \E k \in Callers : DecisionStamp(k)

\* the claims of the runs with two callers: 101 goes to processing, 15000 to
\* review
DecisionClaimArgs ==
    {b : b \in {a \in [id : BoundaryClaimIds, patient_id : {"P1"}, amount : {101, 15000},
                         description : {GoodDescription}, status : {PENDING}] :
                    ClaimPostInit(a) = RetObject}}

\* one patient and one claim, registered and submitted in one piece, and the
\* two callers' decisions on it step by step
NextDecisions ==
    \/ Tick
    \/ DoRegisterAmong(SideBySidePatients)
    \/ DoSubmitClaim(DecisionClaimArgs)
    \/ DoBeginDecision
    \/ DoDecisionLookup
    \/ DoDecisionCheck
    \/ DoDecisionWrite
    \/ DoDecisionStamp

SpecDecisions == Init /\ [][NextDecisions]_vars

(* Two callers on one engine, no lock: submit_claim run statement by *)
(* statement.  Each caller holds its own Claim object; the claims dict *)
(* holds the object that was assigned to the key last.                *)

\* the Claim objects of the runs with two submitting callers: one id, a
\* registered and an unregistered patient, an amount for auto-approval, one
\* for processing and one over the ceiling
RaceClaimArgs ==
    {b : b \in {a \in [id : BoundaryClaimIds, patient_id : {"P1", UnknownPatientId},
                         amount : {75, 101, 50001}, description : {GoodDescription},
                         status : {PENDING}] :
                    ClaimPostInit(a) = RetObject}}

\* caller k calls submit_claim(claim)
BeginSubmit(k, c) ==
    /\ ~Busy(k)
    /\ callers' = Entered(k, "duplicate", "submit_claim", c.id, {c})
    /\ last' = NoCall
    /\ UNCHANGED <<engineVars, authVars, dbVars>>

\* the duplicate-id check left out
SubmitDuplicateCheck_Skipped(k) ==
    /\ callers[k].pc = "duplicate"
    /\ callers' = [callers EXCEPT ![k].pc = "patient"] /\ last' = NoCall
    /\ UNCHANGED <<engineVars, authVars, dbVars>>

\* if claim.id in self.claims: return False
SubmitDuplicateCheck(k) ==
    /\ callers[k].pc = "duplicate"
    /\ IF callers[k].id \in StoredIds
       THEN callers' = Returned(k, RetFalse) /\ last' = Outcome(k, RetFalse)
       ELSE callers' = [callers EXCEPT ![k].pc = "patient"] /\ last' = NoCall
    /\ UNCHANGED <<engineVars, authVars, dbVars>>

\* if claim.patient_id not in self.patients: raise ValueError
SubmitPatientCheck(k) ==
    /\ callers[k].pc = "patient"
    /\ IF \E c \in callers[k].obj : c.patient_id \notin DOMAIN patients
       THEN callers' = Returned(k, ReferentialError) /\ last' = Outcome(k, ReferentialError)
       ELSE callers' = [callers EXCEPT ![k].pc = "ceiling"] /\ last' = NoCall
    /\ UNCHANGED <<engineVars, authVars, dbVars>>

\* if claim.amount > self.max_claim_amount: raise ValueError
SubmitCeilingCheck(k) ==
    /\ callers[k].pc = "ceiling"
    /\ IF \E c \in callers[k].obj : c.amount > max_claim_amount
       THEN callers' = Returned(k, LimitExceededError)
            /\ last' = Outcome(k, LimitExceededError)
       ELSE callers' = [callers EXCEPT ![k].pc = "store"] /\ last' = NoCall
    /\ UNCHANGED <<engineVars, authVars, dbVars>>

\* self.claims[claim.id] = claim: a new key goes last, a key that is there
\* keeps its place and gets the new object
Assigned(c) ==
    IF c.id \in StoredIds
    THEN [i \in 1..Len(claims) |-> IF claims[i].id = c.id THEN c ELSE claims[i]]
    ELSE Append(claims, c)

\* the store: the caller's object is now the one in the dict, and no other
\* caller's object for that id is
SubmitAssign(k) ==
    /\ callers[k].pc = "store"
    /\ \E c \in callers[k].obj : claims' = Assigned(c)
    /\ callers' = [j \in Callers |->
                      IF j = k THEN [callers[j] EXCEPT !.pc = "process", !.stored = TRUE]
                      ELSE IF callers[j].id = callers[k].id
                           THEN [callers[j] EXCEPT !.stored = FALSE]
                           ELSE callers[j]]
    /\ last' = NoCall
    /\ UNCHANGED <<patients, clock, authVars, dbVars>>

\* self._process_claim(claim); return True: the decision is written to the
\* caller's object, which is the stored one only while no later store has
\* taken its place
SubmitProcess(k) ==
    /\ callers[k].pc = "process"
    /\ \E c \in callers[k].obj :
           /\ claims' = IF callers[k].stored THEN Assigned(ProcessClaim(c)) ELSE claims
           /\ callers' = [callers EXCEPT ![k].pc = "done", ![k].ret = RetTrue,
                                         ![k].obj = {ProcessClaim(c)}]
    /\ last' = Outcome(k, RetTrue)
    /\ UNCHANGED <<patients, clock, authVars, dbVars>>

DoBeginSubmit ==
    \E k \in Callers, c \in ConstructedClaims(RaceClaimArgs) : BeginSubmit(k, c)
DoSubmitDuplicateCheck == \E k \in Callers : SubmitDuplicateCheck(k)
DoSubmitPatientCheck == \E k \in Callers : SubmitPatientCheck(k)
DoSubmitCeilingCheck == \E k \in Callers : SubmitCeilingCheck(k)
DoSubmitAssign == \E k \in Callers : SubmitAssign(k)
DoSubmitProcess == \E k \in Callers : SubmitProcess(k)

\* one patient registered in one piece, and the two callers' submissions
\* step by step
NextSubmissions ==
    \/ DoRegisterAmong(SideBySidePatients)
    \/ DoBeginSubmit
    \/ DoSubmitDuplicateCheck
    \/ DoSubmitPatientCheck
    \/ DoSubmitCeilingCheck
    \/ DoSubmitAssign
    \/ DoSubmitProcess

SpecSubmissions == Init /\ [][NextSubmissions]_vars

----------------------------------------------------------------------------
(* Properties of the claim engine *)

\* the claim objects a caller can have constructed with a given id
ObjectsById ==
    [id \in ClaimIds |-> {b : b \in {a \in ConstructibleClaimArgs : a.id = id}}]
SubmittedObjects(id) == ConstructedClaims(ObjectsById[id])

\* C1: after a successful submit_claim the stored claim's status is decided by
\* its amount alone: approved up to and including 100, processing above 100 up
\* to and including 10000, requires_review above 10000 up to and including 50000.
C1_AutoDecision ==
    (last.op = "submit_claim" /\ last.ret = RetTrue) =>
        /\ Cardinality(get_claim(last.id)) = 1
        /\ \A c \in get_claim(last.id) :
            /\ c.amount <= 50000
            /\ c.amount <= 100 => c.status = "approved"
            /\ (100 < c.amount /\ c.amount <= 10000) => c.status = "processing"
            /\ (10000 < c.amount /\ c.amount <= 50000) => c.status = "requires_review"
            /\ last.arg = {[status |-> c.status, updated_at |-> c.updated_at]}

\* a claim of exactly 50000 has just been accepted and requires review, at a
\* time later than its construction
C1_Witness ==
    /\ last.op = "submit_claim" /\ last.ret = RetTrue
    /\ \E c \in get_claim(last.id) :
           /\ c.amount = 50000 /\ c.status = "requires_review"
           /\ c.created_at < c.updated_at

\* C2: approved and rejected are absorbing: a stored claim in one of them is
\* still stored with the same status after every operation, and an approve_claim
\* or reject_claim on it returns false.
C2_Absorbing ==
    [][\A i \in 1..Len(claims) :
          claims[i].status \in {"approved", "rejected"} =>
              /\ i <= Len(claims')
              /\ claims'[i].id = claims[i].id
              /\ claims'[i].status = claims[i].status
              /\ (last'.op \in {"approve_claim", "reject_claim"} /\ last'.id = claims[i].id)
                     => last'.ret = RetFalse]_vars

\* approve_claim was tried on a rejected claim and refused
C2_Witness ==
    /\ last.op = "approve_claim" /\ last.ret = RetFalse
    /\ \E c \in get_claim(last.id) : c.status = "rejected"

\* C3: in every step a stored claim's status stays the same or changes by one
\* of processing -> approved, processing -> rejected, requires_review ->
\* approved, requires_review -> rejected.
AllowedTransitions ==
    {<<"processing", "approved">>, <<"processing", "rejected">>,
     <<"requires_review", "approved">>, <<"requires_review", "rejected">>}

C3_StateMachine ==
    [][\A i \in 1..Len(claims) :
          /\ i <= Len(claims')
          /\ claims'[i].id = claims[i].id
          /\ \/ claims'[i].status = claims[i].status
             \/ <<claims[i].status, claims'[i].status>> \in AllowedTransitions]_vars

\* a claim that required review has just been rejected
C3_Witness ==
    /\ last.op = "reject_claim" /\ last.ret = RetTrue
    /\ \E c \in get_claim(last.id) : c.amount > 10000 /\ c.status = "rejected"

\* C4: approve_claim on a stored claim that is processing or requires_review
\* returns true and leaves it approved; reject_claim on such a claim, with any
\* reason, returns true and leaves it rejected.
C4_ManualDecision ==
    [][\A id \in ClaimIds : \A c \in get_claim(id) :
          c.status \in {"processing", "requires_review"} =>
              /\ ApproveClaim(id) =>
                    /\ last'.ret = RetTrue
                    /\ \A d \in get_claim(id)' : d.status = "approved"
              /\ \A reason \in Reasons : RejectClaim(id, reason) =>
                    /\ last'.ret = RetTrue
                    /\ \A d \in get_claim(id)' : d.status = "rejected"]_vars

\* a claim that required review has just been approved, without ever having
\* been processing
C4_Witness ==
    /\ last.op = "approve_claim" /\ last.ret = RetTrue
    /\ \E c \in get_claim(last.id) : c.amount > 10000 /\ c.status = "approved"

\* C5: between operations no stored claim is pending: get_claims_by_status of
\* pending is empty and get_claim never returns a pending claim.
C5_NeverPending ==
    /\ get_claims_by_status(PENDING) = <<>>
    /\ \A id \in ClaimIds : \A c \in get_claim(id) : c.status # "pending"

\* two claims are stored, the second just submitted
C5_Witness ==
    /\ last.op = "submit_claim" /\ last.ret = RetTrue
    /\ Len(claims) = 2

\* C6 as stated: submit_claim of a claim whose amount is greater than 50000
\* always fails with LimitExceededError and leaves the stored claims as they were.
C6_AlwaysLimitError ==
    [][last'.op = "submit_claim" =>
          \A c \in SubmittedObjects(last'.id) :
              (c.amount > 50000 /\ SubmitClaim(c)) =>
                  /\ last'.ret = LimitExceededError
                  /\ claims' = claims]_vars

\* C6 amended: submit_claim of a claim whose amount is greater than 50000 never
\* stores it and leaves the stored claims as they were; it fails with
\* LimitExceededError when the claim's id is not stored yet and its patient is
\* registered, returns false when the id is already stored, and fails with
\* ReferentialError when the id is new and the patient is not registered.
C6_OverLimitRefused ==
    [][last'.op = "submit_claim" =>
          \A c \in SubmittedObjects(last'.id) :
              (c.amount > 50000 /\ SubmitClaim(c)) =>
                  /\ claims' = claims
                  /\ last'.ret =
                        IF c.id \in {claims[i].id : i \in 1..Len(claims)} THEN RetFalse
                        ELSE IF c.patient_id \notin DOMAIN patients THEN ReferentialError
                        ELSE LimitExceededError]_vars

\* a claim over the ceiling has just been refused while another claim is stored
C6_Witness ==
    /\ last.op = "submit_claim" /\ last.ret = LimitExceededError
    /\ Len(claims) = 1

\* C7 as stated: submit_claim of a claim whose patient_id is not registered
\* always fails with ReferentialError and leaves the stored claims as they were.
C7_AlwaysReferentialError ==
    [][last'.op = "submit_claim" =>
          \A c \in SubmittedObjects(last'.id) :
              (c.patient_id \notin DOMAIN patients /\ SubmitClaim(c)) =>
                  /\ last'.ret = ReferentialError
                  /\ claims' = claims]_vars

\* C7 amended: submit_claim of a claim whose patient_id is not registered never
\* returns true and leaves the stored claims as they were; it fails with
\* ReferentialError when the claim's id is not stored yet and returns false
\* when the id is already stored.
C7_UnknownPatientRefused ==
    [][last'.op = "submit_claim" =>
          \A c \in SubmittedObjects(last'.id) :
              (c.patient_id \notin DOMAIN patients /\ SubmitClaim(c)) =>
                  /\ claims' = claims
                  /\ last'.ret =
                        IF c.id \in {claims[i].id : i \in 1..Len(claims)} THEN RetFalse
                        ELSE ReferentialError]_vars

\* a claim for an unregistered patient has just been refused while a claim of
\* a registered patient is stored
C7_Witness ==
    /\ last.op = "submit_claim" /\ last.ret = ReferentialError
    /\ Len(claims) = 1
    /\ DOMAIN patients # PatientIds

\* C8: submit_claim of a claim whose id is already stored returns false, leaves
\* every stored claim as it was (amount, patient_id, status, updated_at), does
\* not store the new object and does not run the decision rule on it.
C8_DuplicateNoEffect ==
    [][last'.op = "submit_claim" =>
          \A c \in SubmittedObjects(last'.id) :
              (c.id \in {claims[i].id : i \in 1..Len(claims)} /\ SubmitClaim(c)) =>
                  /\ last'.ret = RetFalse
                  /\ claims' = claims
                  /\ last'.arg = {[status |-> c.status, updated_at |-> c.updated_at]}]_vars

\* a second claim with the id of a rejected claim has just been refused; its
\* own status is still the pending it was constructed with
C8_Witness ==
    /\ last.op = "submit_claim" /\ last.ret = RetFalse
    /\ \E c \in get_claim(last.id) : c.status = "rejected"
    /\ \E a \in last.arg : a.status = "pending"

\* C9 as stated: every constructed Claim, stored or not, has an amount above 0
\* and at most 50000.
C9_ConstructedWithinCeiling ==
    [][/\ last'.op = "submit_claim" =>
              \A c \in SubmittedObjects(last'.id) :
                  SubmitClaim(c) => (c.amount > 0 /\ c.amount <= 50000)
       /\ \A i \in 1..Len(claims') :
              claims'[i].amount > 0 /\ claims'[i].amount <= 50000]_vars

\* C9 amended: every constructed Claim has an amount above 0; the ceiling of
\* 50000 holds for the claims stored in the engine, not for every constructed
\* Claim (a Claim above the ceiling is constructed and then refused by
\* submit_claim).
C9_PositiveAndStoredWithinCeiling ==
    /\ \A c \in ConstructedClaims(ConstructibleClaimArgs) : c.amount > 0
    /\ \A i \in 1..Len(claims) : claims[i].amount > 0 /\ claims[i].amount <= 50000

\* a claim above the ceiling was constructed as rejected and has just been
\* refused, so it exists and is not stored
C9_Witness ==
    /\ last.op = "submit_claim" /\ last.ret = LimitExceededError
    /\ \E a \in last.arg : a.status = "rejected"
    /\ claims = <<>>

\* C10: every stored claim's patient_id is the id of a registered patient, and
\* that patient was already registered when the claim was submitted.
C10_PatientRegisteredFirst ==
    [][\A i \in 1..Len(claims') :
          /\ claims'[i].patient_id \in DOMAIN patients'
          /\ claims'[i].id \notin {claims[j].id : j \in 1..Len(claims)}
                => claims'[i].patient_id \in DOMAIN patients]_vars

\* claims of two different registered patients are stored
C10_Witness ==
    /\ Len(claims) = 2
    /\ claims[1].patient_id # claims[2].patient_id
    /\ DOMAIN patients = PatientIds

\* C11: register_patient with an id that is not registered returns True and
\* stores the patient handed in; with an id that is registered it returns False
\* and the stored patient stays the first one, whatever the fields of the second;
\* no other patient is touched.
C11_RegisterOnce ==
    [][last'.op = "register_patient" =>
          \A p \in ConstructedPatients :
              RegisterPatient(p) =>
                  /\ \A x \in PatientIds \ {p.id} : get_patient(x)' = get_patient(x)
                  /\ IF get_patient(p.id) # {}
                     THEN last'.ret = RetFalse /\ get_patient(p.id)' = get_patient(p.id)
                     ELSE last'.ret = RetTrue /\ get_patient(p.id)' = {p}]_vars

\* a second patient with other fields was refused and the first is still stored
C11_Witness ==
    /\ last.op = "register_patient"
    /\ last.ret = RetFalse
    /\ \E p \in last.arg : get_patient(last.id) # {} /\ p \notin get_patient(last.id)

\* the ids of the stored claims of a patient that are approved, and the sum of
\* the amounts stored under a set of ids
ApprovedIdsOf(patient_id) ==
    {id \in StoredIds : \E c \in get_claim(id) : c.patient_id = patient_id /\ c.status = APPROVED}
RECURSIVE AmountOfIds(_)
AmountOfIds(ids) ==
    IF ids = {} THEN 0
    ELSE LET id == CHOOSE x \in ids : TRUE
         IN  (CHOOSE c \in get_claim(id) : TRUE).amount + AmountOfIds(ids \ {id})

\* C12: in every reachable state and for every patient id, registered or not,
\* calculate_total_approved_amount is the sum of the amounts of exactly the
\* stored claims of that patient that are approved, 0 when there is none; with
\* 75 approved on submission, 500 approved by hand and 15000 rejected it is 575.
C12_TotalApproved ==
    /\ \A pid \in PatientIds \cup {UnknownPatientId} :
           /\ calculate_total_approved_amount(pid) = AmountOfIds(ApprovedIdsOf(pid))
           /\ ApprovedIdsOf(pid) = {} => calculate_total_approved_amount(pid) = 0
    /\ \A pid \in PatientIds :
           (/\ \E c \in get_claim("C1") : c.patient_id = pid /\ c.status = APPROVED
            /\ \E c \in get_claim("C2") : c.patient_id = pid /\ c.status = APPROVED
            /\ \E c \in get_claim("C3") : c.status = REJECTED)
           => calculate_total_approved_amount(pid) = 575

\* the three claims of one patient: 75 approved, 500 approved by hand, 15000 rejected
C12_Witness ==
    /\ last.op = "reject_claim" /\ last.id = "C3" /\ last.ret = RetTrue
    /\ \E c \in get_claim("C1") : c.patient_id = "P1" /\ c.amount = 75 /\ c.status = APPROVED
    /\ \E c \in get_claim("C2") : c.patient_id = "P1" /\ c.amount = 500 /\ c.status = APPROVED
    /\ \E c \in get_claim("C3") : c.patient_id = "P1" /\ c.amount = 15000 /\ c.status = REJECTED
    /\ calculate_total_approved_amount("P1") = 575
    /\ calculate_total_approved_amount("P2") = 0

\* C19: approve_claim and reject_claim for an id that is not stored return False
\* and leave the claims as they are, creating no claim; get_claim and
\* get_patient for an id that is not stored return None.
C19_AbsentIdNoEffect ==
    /\ [][\A id \in ClaimIds :
              (last'.op \in {"approve_claim", "reject_claim"} /\ last'.id = id
               /\ get_claim(id) = {}) =>
                  /\ last'.ret = RetFalse
                  /\ claims' = claims
                  /\ get_claim(id)' = {}]_vars
    /\ [](/\ \A id \in ClaimIds : id \notin StoredIds => get_claim(id) = {}
          /\ \A id \in PatientIds \cup {UnknownPatientId} :
                 id \notin DOMAIN patients => get_patient(id) = {})

\* with another claim stored, a decision on an id that is not stored was refused
C19_Witness ==
    /\ last.op \in {"approve_claim", "reject_claim"}
    /\ last.ret = RetFalse
    /\ get_claim(last.id) = {}
    /\ claims # <<>>

\* the ids of a list of claims, the place of a stored id in the claims dict, and
\* a list that holds exactly the claims of a set, each once, in dict order
IdsOf(list) == [i \in 1..Len(list) |-> list[i].id]
Position(id) == CHOOSE i \in 1..Len(claims) : claims[i].id = id
ListsExactly(list, set) ==
    /\ {list[i] : i \in 1..Len(list)} = set
    /\ Len(list) = Cardinality(set)
    /\ \A i, j \in 1..Len(list) : i < j => Position(list[i].id) < Position(list[j].id)

\* C20: the order of the claims dict is the order of the successful submissions
\* (a successful submit_claim puts its id last, no other call changes the
\* order), get_claims_by_patient lists exactly the stored claims of the patient
\* and get_claims_by_status exactly those now in the status, each once and in
\* that order; approve_claim and reject_claim move a claim between status lists
\* without changing the order.
C20_QueriesInSubmissionOrder ==
    /\ [][IdsOf(claims') =
              IF last'.op = "submit_claim" /\ last'.ret = RetTrue
              THEN Append(IdsOf(claims), last'.id)
              ELSE IdsOf(claims)]_vars
    /\ [](/\ \A pid \in PatientIds \cup {UnknownPatientId} :
                 ListsExactly(get_claims_by_patient(pid),
                              {claims[i] : i \in {j \in 1..Len(claims) : claims[j].patient_id = pid}})
          /\ \A st \in ClaimStatus :
                 ListsExactly(get_claims_by_status(st),
                              {claims[i] : i \in {j \in 1..Len(claims) : claims[j].status = st}}))

\* the 500 claim was submitted first and approved by hand after the 75 claim
\* was approved on submission: it is listed first among the approved and
\* among the patient's claims
C20_Witness ==
    /\ last.op = "approve_claim" /\ last.id = "C2" /\ last.ret = RetTrue
    /\ IdsOf(get_claims_by_status(APPROVED)) = <<"C2", "C1">>
    /\ IdsOf(get_claims_by_patient("P1")) = <<"C2", "C3", "C1">>
    /\ IdsOf(get_claims_by_status(REQUIRES_REVIEW)) = <<"C3">>

----------------------------------------------------------------------------
(* Properties of the authentication service *)

\* the step is a call of the given operation with the given token
TokenCall(op, token) == last'.op = op /\ last'.arg = {token}

\* C13: the token create_session(user_id) returns validates to that user_id,
\* and keeps validating to it across every other call (sessions created or
\* logged out, users registered, authentications) until logout of that token;
\* from then on validate_session of the token returns None, whatever is called.
C13_SessionRoundTrip ==
    [][\A t \in Tokens :
          /\ TokenCall("create_session", t) => validate_session(t)' = last'.id
          /\ TokenCall("validate_session", t) => last'.ret = validate_session(t)
          /\ (validate_session(t) # RetNone /\ ~TokenCall("logout", t)) =>
                 validate_session(t)' = validate_session(t)
          /\ TokenCall("logout", t) => validate_session(t)' = RetNone
          /\ (t <= tokens_drawn /\ validate_session(t) = RetNone) =>
                 validate_session(t)' = RetNone]_vars

\* the first token still validates to its user after that user was registered,
\* a second session of the same user was logged out and a third was created
C13_Witness ==
    /\ last.op = "validate_session" /\ last.arg = {1} /\ last.ret = "U1"
    /\ users # <<>>
    /\ tokens_drawn = 3
    /\ DOMAIN active_sessions = {1, 3}
    /\ active_sessions[3] = "U1"

\* C14: logout of a token that is an active session returns True and removes
\* that session and no other; logout of a token that is not one, never issued
\* or logged out before, returns False and changes nothing.
C14_LogoutOnce ==
    [][\A t \in Tokens :
          TokenCall("logout", t) =>
              IF t \in DOMAIN active_sessions
              THEN /\ last'.ret = RetTrue
                   /\ DOMAIN active_sessions' = DOMAIN active_sessions \ {t}
                   /\ \A x \in DOMAIN active_sessions' : active_sessions'[x] = active_sessions[x]
              ELSE /\ last'.ret = RetFalse
                   /\ UNCHANGED authVars]_vars

\* the second logout of a token that was issued returned False, with another
\* session still active
C14_Witness ==
    /\ last.op = "logout" /\ last.ret = RetFalse
    /\ \E t \in last.arg : t <= tokens_drawn /\ t \notin DOMAIN active_sessions
    /\ active_sessions # <<>>

\* C18: create_session returns a token for every user id, registered or not,
\* authenticated or not, and validate_session of that token returns the id.
C18_SessionForAnyUserId ==
    [][\A u \in SessionUserIds :
          (last'.op = "create_session" /\ last'.id = u) =>
              /\ last'.ret = RetObject
              /\ \E t \in Tokens : last'.arg = {t} /\ validate_session(t)' = u]_vars

\* with no user registered at all, a token validated to a user id
C18_Witness ==
    /\ last.op = "validate_session" /\ last.ret = UnknownUserId
    /\ users = <<>>
    /\ \E t \in last.arg : validate_session(t) = UnknownUserId

\* the stored data of a registered user id
StoredUser(id) == users[CHOOSE i \in 1..Len(users) : users[i].id = id]

\* the arguments fail the validation of register_user
Invalid(a) == ~EmailMatches(a.email) \/ Len(a.password) < 8

\* C15 as stated: register_user raises a ValidationError whenever the email is
\* malformed or the password has fewer than 8 characters, also for a user id
\* that is registered, and stores or changes no user.
C15_InvalidAlwaysRaises ==
    [][last'.op = "register_user" =>
          \A a \in UserArgs :
              (Invalid(a) /\ RegisterUser(a)) =>
                  /\ last'.ret \in {InvalidEmail, PasswordTooShort}
                  /\ users' = users]_vars

\* C15: register_user with a malformed email or a password of fewer than 8
\* characters stores or changes no user in any state; it raises a
\* ValidationError (for the email first) when the user id is not registered
\* and returns False when it is.
C15_InvalidRefused ==
    [][last'.op = "register_user" =>
          \A a \in UserArgs :
              (Invalid(a) /\ RegisterUser(a)) =>
                  /\ users' = users
                  /\ last'.ret = IF a.id \in RegisteredIds THEN RetFalse
                                 ELSE IF ~EmailMatches(a.email) THEN InvalidEmail
                                 ELSE PasswordTooShort]_vars

\* a call with a malformed email for the one registered id was answered False
C15_Witness ==
    /\ last.op = "register_user" /\ last.ret = RetFalse
    /\ \E x \in last.arg : x.email = BadEmail
    /\ last.id \in RegisteredIds
    /\ Len(users) = 1

\* C16: register_user with a registered id and valid arguments returns False
\* and leaves the users as they are: authenticate answers every email and
\* password as before, so the original ones still authenticate to that id, and
\* the email, password and user type of the second call do not, unless they
\* are the stored ones.
C16_DuplicateUserNoEffect ==
    [][last'.op = "register_user" =>
          \A a \in UserArgs :
              (a.id \in RegisteredIds /\ ~Invalid(a) /\ RegisterUser(a)) =>
                  LET u == StoredUser(a.id) IN
                  /\ last'.ret = RetFalse
                  /\ users' = users
                  /\ \A c \in Credentials : authenticate(c[1], c[2])' = authenticate(c[1], c[2])
                  /\ authenticate(u.email, u.password) = {UserView(u)} =>
                         authenticate(u.email, u.password)' = {UserView(u)}
                  /\ \A v \in authenticate(a.email, a.password)' :
                         v.user_id = a.id =>
                             /\ a.email = u.email /\ a.password = u.password
                             /\ v.user_type = u.user_type]_vars

\* a second registration of an id with another email, password and user type
\* was refused: the first ones authenticate to the id, the second ones to nobody
C16_Witness ==
    /\ last.op = "register_user" /\ last.ret = RetFalse
    /\ \E x \in last.arg :
           x.email = OtherEmail /\ x.password = OtherPassword /\ x.user_type = PROVIDER
    /\ authenticate(GoodEmail, GoodPassword) =
           {[user_id |-> last.id, email |-> GoodEmail, user_type |-> PATIENT]}
    /\ authenticate(OtherEmail, OtherPassword) = {}

\* C17: authenticate returns user info exactly when some stored user has that
\* email and that password and is active, and None otherwise; the info is the
\* user id, email and user type of the earliest-registered such user, also
\* when other users share the email.
C17_AuthenticateFirstMatch ==
    /\ \A c \in Credentials :
           LET hits == {i \in 1..Len(users) :
                           /\ users[i].email = c[1]
                           /\ users[i].password = c[2]
                           /\ users[i].is_active}
           IN  /\ authenticate(c[1], c[2]) = {} <=> hits = {}
               /\ \A v \in authenticate(c[1], c[2]) :
                      \E i \in hits :
                          /\ \A j \in hits : i <= j
                          /\ v = [user_id |-> users[i].id, email |-> c[1],
                                  user_type |-> users[i].user_type]
               /\ Cardinality(authenticate(c[1], c[2])) <= 1
    /\ last.op = "authenticate" =>
           /\ last.ret = RetNone <=> last.arg = {}
           /\ \A v \in last.arg : \E pw \in Passwords : authenticate(v.email, pw) = {v}

\* two users registered with the same email and password and different user
\* types: the call returned the first one
C17_Witness ==
    /\ last.op = "authenticate" /\ last.ret = RetObject
    /\ Len(users) = 2
    /\ users[1].email = users[2].email /\ users[1].password = users[2].password
    /\ users[1].user_type # users[2].user_type
    /\ last.arg = {UserView(users[1])}

----------------------------------------------------------------------------
(* Properties of the constructors *)

\* what is left of a description after trimming has at least n characters: a
\* first and a last character that is not whitespace lie at least n - 1 apart
TrimmedAtLeast(d, n) ==
    \E i, j \in 1..Len(d) :
        d[i] \notin Whitespace /\ d[j] \notin Whitespace /\ j - i >= n - 1

\* C21: Claim(...) fails with a ValidationError exactly when the amount is 0 or
\* less or the description is empty or has fewer than 5 characters after
\* trimming; no object comes out of a failed call, so every claim submitted and
\* every claim stored has an amount above 0.
C21_ClaimConstruction ==
    /\ [](last.op = "Claim" =>
             \A a \in last.arg :
                 /\ last.ret # RetObject <=> (a.amount <= 0 \/ ~TrimmedAtLeast(a.description, 5))
                 /\ last.ret \in {RetObject, AmountNotPositive, DescriptionTooShort})
    /\ [](\A i \in 1..Len(claims) : claims[i].amount > 0)
    /\ [][last'.op = "submit_claim" =>
              /\ last.op = "Claim" /\ last.ret = RetObject
              /\ \A a \in last.arg : a.amount > 0 /\ a.id = last'.id]_vars

\* a Claim(...) with amount 0 and a good description raised, with nothing stored
C21_Witness ==
    /\ last.op = "Claim" /\ last.ret = AmountNotPositive
    /\ \E a \in last.arg : a.amount = 0 /\ a.description = GoodDescription
    /\ patients # <<>>
    /\ claims = <<>>

\* the number of characters of a description that are not whitespace
Solid(d) == Cardinality({i \in 1..Len(d) : d[i] \notin Whitespace})

\* the descriptions of the Claim objects there are: the one just constructed
\* and the stored ones
ObjectDescriptions ==
    {a.description : a \in IF last.op = "Claim" /\ last.ret = RetObject THEN last.arg ELSE {}}
    \cup {claims[i].description : i \in 1..Len(claims)}

\* C22 as stated: every constructed Claim has a description with at least 5
\* characters that are not whitespace.
C22_FiveSolidCharacters ==
    \A d \in ObjectDescriptions : Solid(d) >= 5

\* C22: every constructed Claim has a description of at least 5 characters
\* after trimming, whitespace between its first and last solid character
\* counted; it has at least 2 characters that are not whitespace.
C22_FiveTrimmedCharacters ==
    \A d \in ObjectDescriptions : TrimmedAtLeast(d, 5) /\ Solid(d) >= 2

\* a claim described by "a b c", three solid characters, was constructed and stored
C22_Witness ==
    /\ last.op = "submit_claim" /\ last.ret = RetTrue
    /\ \E c \in get_claim(last.id) : c.description = SpacedDescription /\ Solid(c.description) = 3

\* the shape local@domain.tld: one '@', text without '@' before it, and after
\* it text holding a '.' that has text on both sides
WellFormed(email) ==
    /\ Cardinality({i \in 1..Len(email) : email[i] = "@"}) = 1
    /\ email[1] # "@"
    /\ \E i \in 2..(Len(email) - 1) :
           /\ email[i] = "."
           /\ email[i - 1] # "@"
           /\ \E k \in 1..(i - 2) : email[k] = "@"

\* C23: Patient(...) fails with a ValidationError when the email has not the
\* shape local@domain.tld or the insurance id is empty, so every registered
\* patient has a well-formed email and an insurance id.
C23_PatientConstruction ==
    /\ last.op = "Patient" =>
           \A a \in last.arg :
               (~WellFormed(a.email) \/ a.insurance_id = "") =>
                   last.ret \in {InvalidEmail, InsuranceRequired}
    /\ \A id \in DOMAIN patients :
           WellFormed(patients[id].email) /\ patients[id].insurance_id # ""

\* with a patient registered, a Patient(...) whose email has a second '@' raised
C23_Witness ==
    /\ last.op = "Patient" /\ last.ret = InvalidEmail
    /\ \E a \in last.arg :
           a.email = <<"a", "@", "b", "@", "c", ".", "d">> /\ a.insurance_id # ""
    /\ patients # <<>>

----------------------------------------------------------------------------
(* Timestamps *)

\* C24: the clock never goes back; a successful submit_claim, approve_claim or
\* reject_claim leaves the claim it decides with updated_at at the current
\* time; no engine operation changes the created_at of a stored claim or
\* stores a claim with another created_at than its object had; a call that
\* returns False or raises leaves the updated_at of every claim as it was.
C24_Timestamps ==
    [][/\ clock' >= clock
       /\ Len(claims') >= Len(claims)
       /\ \A i \in 1..Len(claims) :
              /\ claims'[i].id = claims[i].id
              /\ claims'[i].created_at = claims[i].created_at
              /\ claims'[i].created_at <= claims'[i].updated_at
       /\ (last'.op \in {"submit_claim", "approve_claim", "reject_claim"}
           /\ last'.ret = RetTrue) =>
              \A i \in 1..Len(claims') :
                  claims'[i].id = last'.id =>
                      /\ claims'[i].updated_at = clock'
                      /\ claims'[i].created_at <= clock'
       /\ (last'.op \in {"submit_claim", "approve_claim", "reject_claim", "register_patient"}
           /\ last'.ret # RetTrue) =>
              /\ Len(claims') = Len(claims)
              /\ \A i \in 1..Len(claims) : claims'[i].updated_at = claims[i].updated_at]_vars

\* a claim constructed at time 0 and submitted later was approved at time 2
C24_Witness ==
    /\ last.op = "approve_claim" /\ last.ret = RetTrue
    /\ clock = 2
    /\ \E c \in get_claim(last.id) :
           c.created_at = 0 /\ c.updated_at = 2 /\ c.status = APPROVED

----------------------------------------------------------------------------
(* Properties of the storage *)

\* a table after a row was added under a new key, every other row as it was
RowAdded(after, before, key) ==
    /\ key \notin DOMAIN before
    /\ DOMAIN after = DOMAIN before \cup {key}
    /\ \A x \in DOMAIN before : after[x] = before[x]

C26_UpdateUnguarded ==
    [][last'.op = "update_claim_status" =>
          /\ last'.ret = RetTrue <=> last'.id \in DOMAIN db_claims
          /\ last'.ret \in {RetTrue, RetFalse}
          /\ DOMAIN db_claims' = DOMAIN db_claims
          /\ \A x \in DOMAIN db_claims :
                 IF x = last'.id
                 THEN /\ \A st \in last'.arg : db_claims'[x].status = st
                      /\ db_claims'[x].patient_id = db_claims[x].patient_id
                      /\ db_claims'[x].amount = db_claims[x].amount
                 ELSE db_claims'[x] = db_claims[x]
          /\ last'.ret = RetFalse => db_claims' = db_claims]_vars

\* an update to approved returned True for one row, next to a rejected row
C26_Witness ==
    /\ last.op = "update_claim_status" /\ last.ret = RetTrue /\ last.arg = {APPROVED}
    /\ Cardinality(DOMAIN db_claims) = 2
    /\ db_claims[last.id].status = APPROVED
    /\ \E x \in DOMAIN db_claims : db_claims[x].status = REJECTED

----------------------------------------------------------------------------
(* Order of the checks of submit_claim *)

\* C27: submit_claim decides by its first check that matches: a stored id gives
\* False, else an unregistered patient the ReferentialError, else an amount
\* above 50000 the LimitExceededError; so a claim that names an unregistered
\* patient and is above the ceiling never fails with the LimitExceededError.
\* Whenever the call does not return True the claims are as they were and the
\* submitted object has the status and updated_at it was constructed with.
C27_FirstCheckDecides ==
    [][last'.op = "submit_claim" =>
          \A a \in last.arg :
              LET stored == \E i \in 1..Len(claims) : claims[i].id = a.id
                  unregistered == a.patient_id \notin DOMAIN patients
                  above == a.amount > 50000
              IN  /\ last'.ret = IF stored THEN RetFalse
                                 ELSE IF unregistered THEN ReferentialError
                                 ELSE IF above THEN LimitExceededError
                                 ELSE RetTrue
                  /\ (unregistered /\ above) => last'.ret \in {ReferentialError, RetFalse}
                  /\ last'.ret # RetTrue =>
                         /\ claims' = claims
                         /\ \A c \in last'.arg :
                                c.status = a.status /\ c.updated_at = clock /\ c.amount = a.amount]_vars

\* a claim of 50001 for an unregistered patient, constructed as rejected, failed
\* with 'Patient not found' and is still rejected; a patient is registered
C27_Witness ==
    /\ last.op = "submit_claim" /\ last.ret = ReferentialError
    /\ \E c \in last.arg :
           /\ c.amount = 50001
           /\ c.patient_id \notin DOMAIN patients
           /\ c.status = REJECTED
    /\ patients # <<>>
    /\ claims = <<>>

----------------------------------------------------------------------------
(* The engine and the authentication service side by side *)

EngineOps == {"register_patient", "submit_claim", "approve_claim", "reject_claim"}
AuthOps == {"register_user", "authenticate", "create_session", "validate_session", "logout"}

\* C28: no call of the authentication service changes patients or claims, no
\* call of the engine changes users or sessions, and what an engine call
\* returns follows from the patients and claims alone, sessions or none:
\* approve_claim and reject_claim return True exactly for a stored claim that
\* is not approved or rejected.
C28_Uncoupled ==
    [][/\ last'.op \in AuthOps => UNCHANGED engineVars
       /\ last'.op \in EngineOps => UNCHANGED authVars
       /\ last'.op \in {"approve_claim", "reject_claim"} =>
              (last'.ret = RetTrue <=>
                   \E i \in 1..Len(claims) :
                       claims[i].id = last'.id /\ claims[i].status \notin {APPROVED, REJECTED})
       /\ last'.op = "register_patient" =>
              (last'.ret = RetTrue <=> last'.id \notin DOMAIN patients)
       /\ last'.op = "submit_claim" =>
              LET stored == \E i \in 1..Len(claims) : claims[i].id = last'.id IN
              /\ last'.ret = RetFalse <=> stored
              /\ last'.ret = ReferentialError <=> (~stored /\ "P1" \notin DOMAIN patients)
              /\ last'.ret \in {RetFalse, ReferentialError, LimitExceededError, RetTrue}]_vars

\* a claim was approved with no user registered and no session ever created
C28_Witness ==
    /\ last.op = "approve_claim" /\ last.ret = RetTrue
    /\ users = <<>>
    /\ tokens_drawn = 0
    /\ \E c \in get_claim(last.id) : c.status = APPROVED /\ c.amount = 101

\* C29: sessions do not touch one another: create_session succeeds however
\* many sessions are active, for the same user too, adds one token and leaves
\* every token issued before mapped as it was; logout of a token removes that
\* token alone, so every other active token validates to its user as before.
C29_SessionsIndependent ==
    [][/\ last'.op = "create_session" =>
              /\ last'.ret = RetObject
              /\ Cardinality(DOMAIN active_sessions') = Cardinality(DOMAIN active_sessions) + 1
              /\ \A t \in Tokens :
                     t \notin last'.arg => validate_session(t)' = validate_session(t)
       /\ last'.op = "logout" =>
              \A t \in Tokens :
                  t \notin last'.arg => validate_session(t)' = validate_session(t)]_vars

\* of three sessions of one user the second was logged out, and the first and
\* the third validate to the user
C29_Witness ==
    /\ last.op = "logout" /\ last.ret = RetTrue /\ last.arg = {2}
    /\ DOMAIN active_sessions = {1, 3}
    /\ validate_session(1) = "U1"
    /\ validate_session(3) = "U1"

----------------------------------------------------------------------------
(* The storage as a mirror of the engine *)

----------------------------------------------------------------------------
(* Properties of the reports and of the utility functions *)

\* the sum of the counts of a status_breakdown
RECURSIVE SumCounts(_)
SumCounts(breakdown) ==
    IF DOMAIN breakdown = {} THEN 0
    ELSE LET k == CHOOSE y \in DOMAIN breakdown : TRUE
         IN  breakdown[k].count
             + SumCounts([z \in DOMAIN breakdown \ {k} |-> breakdown[z]])

\* C31: get_claim_statistics reports total_claims equal to the number of rows
\* of the claims table, and a status_breakdown with an entry for exactly the
\* status values present in the table, each entry's count being the number of
\* rows with that status; the counts sum to total_claims, after any sequence
\* of insert_claim and update_claim_status calls.
C31_StatisticsCount ==
    last.op = "get_claim_statistics" =>
        \A r \in last.arg :
            /\ r.total_claims = Cardinality(DOMAIN db_claims)
            /\ DOMAIN r.status_breakdown = {db_claims[x].status : x \in DOMAIN db_claims}
            /\ \A k \in DOMAIN r.status_breakdown :
                   r.status_breakdown[k].count =
                       Cardinality({x \in DOMAIN db_claims : db_claims[x].status = k})
            /\ SumCounts(r.status_breakdown) = r.total_claims

\* a report on three rows, two of them with the same status and amount, one
\* with a status that is none of ClaimStatus
C31_Witness ==
    /\ last.op = "get_claim_statistics"
    /\ \E r \in last.arg :
           /\ r.total_claims = 3
           /\ DOMAIN r.status_breakdown = {APPROVED, OtherStatusText}
           /\ r.status_breakdown[APPROVED].count = 2
           /\ r.status_breakdown[APPROVED].total_amount = 200

\* C32: calculate_claim_processing_fee(amount) is 25 for amount <= 1000, 50
\* for 1000 < amount <= 5000 and 100 for amount > 5000, the boundaries 1000
\* and 5000 falling in the lower tier; of two calls, the one with the larger
\* amount never gets the smaller fee.
C32_FeeTiers ==
    [][last'.op = "calculate_claim_processing_fee" =>
        \A r \in last'.arg :
            /\ r.amount <= 1000 => r.fee = 25
            /\ (1000 < r.amount /\ r.amount <= 5000) => r.fee = 50
            /\ r.amount > 5000 => r.fee = 100
            /\ last.op = "calculate_claim_processing_fee" =>
                   \A q \in last.arg : q.amount <= r.amount => q.fee <= r.fee]_vars

\* the fee of the upper boundary
C32_Witness ==
    /\ last.op = "calculate_claim_processing_fee"
    /\ \E r \in last.arg : r.amount = 5000 /\ r.fee = 50

----------------------------------------------------------------------------
(* Properties of the engine over whole runs *)

\* C33: with the default thresholds, in every reachable state each stored
\* claim's status fits its amount: amount <= 100 implies approved (so an
\* auto-approved claim is never rejected), processing implies
\* 100 < amount <= 10000, requires_review implies 10000 < amount <= 50000, and
\* every stored claim has 0 < amount <= 50000.
C33_StatusFitsAmount ==
    \A i \in 1..Len(claims) :
        LET c == claims[i]
        IN  /\ c.amount <= 100 => c.status = APPROVED
            /\ c.status = PROCESSING => (100 < c.amount /\ c.amount <= 10000)
            /\ c.status = REQUIRES_REVIEW => (10000 < c.amount /\ c.amount <= 50000)
            /\ 0 < c.amount /\ c.amount <= 50000

\* reject_claim has been refused for a stored claim of exactly 100, which is
\* still approved
C33_Witness ==
    /\ last.op = "reject_claim" /\ last.ret = RetFalse
    /\ \E c \in get_claim(last.id) : c.amount = 100 /\ c.status = APPROVED

\* C34: for every patient id, calculate_total_approved_amount never decreases
\* in any step of the engine.
C34_TotalNeverDecreases ==
    [][\A pid \in PatientIds \cup {UnknownPatientId} :
          calculate_total_approved_amount(pid)' >= calculate_total_approved_amount(pid)]_vars

\* all three claims of one patient are approved, two of them by hand, and a
\* reject_claim on one of them has been refused
C34_Witness ==
    /\ last.op = "reject_claim" /\ last.ret = RetFalse
    /\ calculate_total_approved_amount("P1") = 15575

\* C35: the registry and the claim map only grow.  In every step each
\* registered patient stays registered with every field as it was, each stored
\* claim stays stored in its place with its id, patient_id and amount as they
\* were, and a submit_claim or register_patient that returns True is for an id
\* that was not stored before the call and is stored after it; so for one id
\* no second such call can return True.
C35_OnlyGrows ==
    [][/\ DOMAIN patients \subseteq DOMAIN patients'
       /\ \A x \in DOMAIN patients : patients'[x] = patients[x]
       /\ Len(claims) <= Len(claims')
       /\ \A i \in 1..Len(claims) :
              /\ claims'[i].id = claims[i].id
              /\ claims'[i].patient_id = claims[i].patient_id
              /\ claims'[i].amount = claims[i].amount
       /\ (last'.op = "submit_claim" /\ last'.ret = RetTrue) =>
              (last'.id \notin StoredIds /\ last'.id \in StoredIds')
       /\ (last'.op = "register_patient" /\ last'.ret = RetTrue) =>
              (last'.id \notin DOMAIN patients /\ last'.id \in DOMAIN patients')]_vars

\* both patients and all three claims are stored, and one more register_patient
\* with another name has been refused
C35_Witness ==
    /\ last.op = "register_patient" /\ last.ret = RetFalse
    /\ \E p \in last.arg : p.id \in DOMAIN patients /\ patients[p.id] # p
    /\ DOMAIN patients = PatientIds
    /\ Len(claims) = 3

\* the query operations
QueryOps ==
    {"get_patient", "get_claim", "get_claims_by_patient", "get_claims_by_status",
     "calculate_total_approved_amount", "authenticate", "validate_session"}

\* C36: the query operations are read-only: get_patient, get_claim,
\* get_claims_by_patient, get_claims_by_status, calculate_total_approved_amount,
\* authenticate and validate_session leave patients, claims (status and
\* updated_at included), users and sessions as they were; authenticate creates
\* no session and validate_session neither ends nor changes one.
C36_QueriesReadOnly ==
    [][last'.op \in QueryOps =>
          /\ patients' = patients
          /\ claims' = claims
          /\ users' = users
          /\ active_sessions' = active_sessions]_vars

\* a session has been validated, and is still there, at a time after the
\* stored claim was last written
C36_Witness ==
    /\ last.op = "validate_session" /\ last.ret = "U1"
    /\ last.arg \subseteq DOMAIN active_sessions
    /\ \E c \in get_claim("C1") : c.status = PROCESSING /\ c.updated_at < clock

----------------------------------------------------------------------------
(* Properties of the authentication service over whole runs *)

\* C37: in every reachable state of the service every stored user is active,
\* has a well-formed email and a password of at least 8 characters; in every
\* step each registered id stays registered with its data as it was, and an
\* email and password that authenticate get the same answer, the same user
\* id, after the step.
C37_UsersKept ==
    /\ [](\A i \in 1..Len(users) :
              /\ users[i].is_active
              /\ WellFormed(users[i].email)
              /\ Len(users[i].password) >= 8)
    /\ [][/\ \A id \in RegisteredIds :
                 id \in RegisteredIds' /\ StoredUser(id)' = StoredUser(id)
          /\ \A c \in Credentials :
                 authenticate(c[1], c[2]) # {} =>
                     authenticate(c[1], c[2])' = authenticate(c[1], c[2])]_vars

\* a second user has been registered with the email and password of the
\* first, and these still authenticate to the first
C37_Witness ==
    /\ last.op = "register_user" /\ last.ret = RetTrue /\ last.id = "U2"
    /\ Len(users) = 2
    /\ users[1].id = "U1"
    /\ users[2].email = users[1].email /\ users[2].password = users[1].password
    /\ \E v \in authenticate(users[2].email, users[2].password) : v.user_id = "U1"

----------------------------------------------------------------------------
(* Properties of two callers without a lock *)

\* caller k has returned True from approve_claim or reject_claim on the id
DecidedTrue(k, id) ==
    /\ callers[k].pc = "done" /\ callers[k].ret = RetTrue
    /\ callers[k].op \in {"approve_claim", "reject_claim"}
    /\ callers[k].id = id

\* C38 as stated: when approve_claim(id) and reject_claim(id) for the same
\* stored non-terminal claim are run by two callers whose steps interleave, at
\* most one of the two calls returns True, and the claim's status does not
\* change after the first of them has returned True.
C38_AtMostOneTrue ==
    /\ [](\A id \in BoundaryClaimIds :
              ~(/\ DecidedTrue("A", id) /\ DecidedTrue("B", id)
                /\ callers["A"].op # callers["B"].op))
    /\ [][\A id \in BoundaryClaimIds :
              (\E k \in Callers : DecidedTrue(k, id)) =>
                  \A c \in get_claim(id) : \A d \in get_claim(id)' :
                      d.status = c.status]_vars

\* C38 as the code has it: a call returns False exactly when the claim is
\* approved or rejected at the moment of its own check, whatever the other
\* caller is doing, and its write sets the status whatever the status then
\* is; so both calls return True when both check before either writes, and
\* the status is that of the later write.  Two calls on one id that both
\* returned True ran at the same time: of calls run one after the other at
\* most one returns True, and the status stays as that call wrote it.
C38_LastWriteWins ==
    /\ [](\A id \in BoundaryClaimIds :
              (DecidedTrue("A", id) /\ DecidedTrue("B", id)) =>
                  (callers["A"].overlap /\ callers["B"].overlap))
    /\ [](\A k \in Callers, id \in BoundaryClaimIds :
              (DecidedTrue(k, id) /\ ~callers[k].overlap) =>
                  \A c \in get_claim(id) : c.status = DecisionStatus(callers[k].op))
    /\ [][\A k \in Callers :
              /\ (callers[k].pc = "check" /\ callers'[k].pc # "check") =>
                     (callers'[k].ret = RetFalse
                          <=> \E c \in get_claim(callers[k].id) : IsTerminal(c.status))
              /\ (callers[k].pc = "write" /\ callers'[k].pc = "stamp") =>
                     \A d \in get_claim(callers[k].id)' :
                         d.status = DecisionStatus(callers[k].op)]_vars

\* approve_claim by A and reject_claim by B have both returned True for the
\* same claim, which is rejected
C38_Witness ==
    /\ DecidedTrue("A", "C1") /\ callers["A"].op = "approve_claim"
    /\ DecidedTrue("B", "C1") /\ callers["B"].op = "reject_claim"
    /\ last.op = "reject_claim" /\ last.arg = {"B"}
    /\ \E c \in get_claim("C1") : c.status = REJECTED

\* caller k has returned True from submit_claim for the id
SubmittedTrue(k, id) ==
    /\ callers[k].pc = "done" /\ callers[k].ret = RetTrue
    /\ callers[k].op = "submit_claim"
    /\ callers[k].id = id

\* C39 as stated: when two submit_claim calls for two different claim objects
\* with the same id are run by two callers whose steps interleave, at most one
\* call returns True, and the claim that ends up stored under the id is the
\* one whose call returned True.
C39_AtMostOneStored ==
    \A id \in BoundaryClaimIds :
        /\ ~(SubmittedTrue("A", id) /\ SubmittedTrue("B", id))
        /\ \A k \in Callers :
               (SubmittedTrue(k, id) /\ ~Busy(Other(k))) => callers[k].stored

\* C39 as the code has it: a call returns False exactly when the id is a key
\* at the moment of its own duplicate-id check, and its store puts its object
\* under the id whatever is there; so both calls return True when both check
\* before either stores, the object stored under the id is the one stored
\* last, and the object it replaced is decided all the same.  Two calls with
\* one id that both returned True ran at the same time: of calls run one
\* after the other at most one returns True, and its object is the stored one.
C39_LastStoreWins ==
    /\ [](\A id \in BoundaryClaimIds :
              /\ (SubmittedTrue("A", id) /\ SubmittedTrue("B", id)) =>
                     (callers["A"].overlap /\ callers["B"].overlap)
              /\ ~(callers["A"].stored /\ callers["B"].stored
                   /\ callers["A"].id = callers["B"].id)
              /\ \A k \in Callers :
                     /\ (SubmittedTrue(k, id) /\ ~callers[k].overlap) => callers[k].stored
                     /\ (SubmittedTrue(k, id) /\ callers[k].stored) =>
                            get_claim(id) = callers[k].obj
                     /\ SubmittedTrue(k, id) =>
                            \A c \in callers[k].obj : c.status = ProcessStatus(c))
    /\ [][\A k \in Callers :
              /\ (callers[k].pc = "duplicate" /\ callers'[k].pc # "duplicate") =>
                     (callers'[k].ret = RetFalse <=> callers[k].id \in StoredIds)
              /\ (callers[k].pc = "store" /\ callers'[k].pc = "process") =>
                     get_claim(callers[k].id)' = callers[k].obj]_vars

\* both submit_claim calls have returned True for the id: A's claim of 75 is
\* approved and not stored, B's claim of 101 is the stored one
C39_Witness ==
    /\ SubmittedTrue("A", "C1") /\ SubmittedTrue("B", "C1")
    /\ ~callers["A"].stored /\ callers["B"].stored
    /\ \E c \in callers["A"].obj : c.amount = 75 /\ c.status = APPROVED
    /\ \E c \in get_claim("C1") : c.amount = 101 /\ c.status = PROCESSING
    /\ Len(claims) = 1

----------------------------------------------------------------------------
(* Properties of the storage over whole runs *)

\* C40: after any sequence of insert_patient, insert_claim and
\* update_claim_status calls every row of table claims has a patient_id that
\* is the id of a row of table patients, as the FOREIGN KEY declared on
\* claims.patient_id states: insert_claim for a patient_id that is not in
\* table patients returns False and inserts nothing.
C40_ForeignKeyHolds ==
    /\ [](\A x \in DOMAIN db_claims : db_claims[x].patient_id \in DOMAIN db_patients)
    /\ [][last'.op = "insert_claim" =>
              \A d \in last'.arg :
                  d.patient_id \notin DOMAIN db_patients =>
                      (last'.ret = RetFalse /\ db_claims' = db_claims)]_vars

====
